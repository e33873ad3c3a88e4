--------------------------- MODULE TPMAEADService ---------------------------
(***************************************************************************)
(* The library, command by command on a TPM that others use and that may   *)
(* fail, implements the service of AEADService: a call takes effect in the *)
(* step in which it returns.                                               *)
(***************************************************************************)
EXTENDS TPMAEAD

Requests == CallType \ [op : {"none"}]

\* What a client can see of the state of its call.
Reply(c) ==
  [status |-> outcome[c].status,
   text |-> IF call[c].op = "Open" /\ outcome[c].status = "ok"
              THEN Opened(c) ELSE [id |-> "none", len |-> 0]]

replies == [c \in Client |-> Reply(c)]

Service == INSTANCE AEADService
             WITH Request <- Requests, request <- call, reply <- replies

\* Every step of the library is a step of the service or invisible to its
\* callers, with other clients, failing commands and crashes in between: no
\* call has half its effect, none sees what an unfinished one is doing, and a
\* retry after a failure starts from nothing.
Implements == Service!Spec

\* ... and every call is answered, with others calling all the time: no client
\* waits for the device forever.
ImplementsLive == Service!LiveSpec
=============================================================================
