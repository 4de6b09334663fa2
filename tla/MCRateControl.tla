--------------------------- MODULE MCRateControl ---------------------------
(* RateControl for TLC, with callers that ask again and again for pages whose
   names are found: the boards of a tick that share one host. *)
EXTENDS RateControl

AskedSpec ==
    /\ FairRateSpec
    /\ \A r \in Request : WF_rateVars(\E h \in Host : fetch(r, h))
    /\ \A r \in Request : SF_rateVars(refuse(r) \/ schedule(r))
=============================================================================
