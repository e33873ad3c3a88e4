----------------------- MODULE TPMAEADService_proofs -----------------------
(***************************************************************************)
(* Proofs about the data of TPMAEAD: what is at the handles a call uses,   *)
(* what it computes with it, and that the library implements AEADService.  *)
(***************************************************************************)
EXTENDS TPMAEAD_proofs

-----------------------------------------------------------------------------
(* What is loaded for the other calls. *)

\* A session in the same state, whoever owns it.
SameSession(s, x) ==
  /\ s.handle = x.handle /\ s.trial = x.trial /\ s.password = x.password
  /\ s.digest = x.digest /\ s.pcrCount = x.pcrCount

\* A step of c changes what is loaded in its own space only, while it is served.
Touches(c) ==
  /\ \A o \in objects' :
       \/ \E x \in objects : o.handle = x.handle /\ o.kind = x.kind /\ o.key = x.key
       \/ c \in served /\ o.handle \in Own(c)
  /\ \A s \in sessions' :
       \/ \E x \in sessions : SameSession(s, x)
       \/ c \in served /\ s.handle \in Own(c)

\* What the calls have got from the TPM, what was returned, and how calls ended.
DataApart(c) ==
  /\ \A d \in Client \ {c} : work'[d] = work[d]
  /\ pairs \subseteq pairs' /\ aeads \subseteq aeads' /\ sealed \subseteq sealed'

\* Such a step leaves what is at the handles of another call.
LEMMA OthersContent ==
  ASSUME HandleInv, NEW c \in Client, NEW d \in Client \ {c}, Touches(c), Apart(c),
         work'[d] = work[d], ContentOK(d)
  PROVE  ContentOK(d)'
<1> SUFFICES ASSUME d \in served', ~Failing(d)'
             PROVE  KeysThere(d)' /\ SequenceThere(d)' /\ PrimaryThere(d)' /\ TrialThere(d)'
  BY DEF ContentOK
<1>1. /\ call'[d] = call[d] /\ todo'[d] = todo[d] /\ var'[d] = var[d] /\ outcome'[d] = outcome[d]
      /\ d \in served /\ ~Failing(d)
  BY DEF Apart, Failing
<1>2. KeysThere(d) /\ SequenceThere(d) /\ PrimaryThere(d) /\ TrialThere(d)
  BY <1>1 DEF ContentOK
<1>3. c \in served => Own(c) \intersect Own(d) = {}
  BY <1>1, OwnApart, TransportAssumption DEF HandleInv, OneServed
<1>4. \A v \in Variable : var[d][v] \in Own(d) \union {NoHandle}
  BY DEF HandleInv, HandlesOK, Variable, Own
<1>5. NoHandle \notin Own(c)
  BY HandleShape
<1>6. ASSUME NEW v \in Variable, NEW kind, NEW o \in Loaded(d, v, kind)'
      PROVE  \E x \in Loaded(d, v, kind) : x.key = o.key
  <2>1. o \in objects' /\ o.handle = var[d][v] /\ o.kind = kind
    BY <1>1, <1>6 DEF Loaded, ObjectsAt
  <2>2. PICK x \in objects : o.handle = x.handle /\ o.kind = x.kind /\ o.key = x.key
    BY <1>3, <1>4, <1>5, <2>1 DEF Touches
  <2> QED BY <2>1, <2>2 DEF Loaded, ObjectsAt
<1>7. ASSUME NEW v \in Variable, NEW s \in OpenSession(d, v)'
      PROVE  \E x \in OpenSession(d, v) : x.digest = s.digest
  <2>1. s \in sessions' /\ s.handle = var[d][v]
    BY <1>1, <1>7 DEF OpenSession, SessionsAt
  <2>2. PICK x \in sessions : s.handle = x.handle /\ s.digest = x.digest
    BY <1>3, <1>4, <1>5, <2>1 DEF Touches, SameSession
  <2> QED BY <2>1, <2>2 DEF OpenSession, SessionsAt
<1>8. /\ \A m : (Taken(d, m)' <=> Taken(d, m)) /\ (Ahead(d, m)' <=> Ahead(d, m))
      /\ AssertedIn(d, "trial")' = AssertedIn(d, "trial")
      /\ \A v : KeyFile(d, v)' = KeyFile(d, v)
  BY <1>1 DEF Taken, Ahead, AssertedIn, KeyFile
<1>9. {"aes", "hmac", "sequence", "primary", "trial"} \subseteq Variable
  BY DEF Variable, ObjectVariable, SessionVariable
<1>10. KeysThere(d)'
  BY <1>2, <1>6, <1>8, <1>9 DEF KeysThere
<1>11. SequenceThere(d)'
  BY <1>1, <1>2, <1>6, <1>8, <1>9 DEF SequenceThere
<1>12. PrimaryThere(d)'
  BY <1>2, <1>6, <1>8, <1>9 DEF PrimaryThere
<1>13. TrialThere(d)'
  BY <1>2, <1>7, <1>8, <1>9 DEF TrialThere
<1> QED BY <1>10, <1>11, <1>12, <1>13

\* ... and its results.
LEMMA OthersData ==
  ASSUME HandleInv, NEW c \in Client, NEW d \in Client \ {c}, Touches(c), Apart(c), DataApart(c),
         ContentOK(d), WorkOK(d), ArgumentsOK(d), OutcomeOK(d)
  PROVE  ContentOK(d)' /\ WorkOK(d)' /\ ArgumentsOK(d)' /\ OutcomeOK(d)'
<1>1. /\ call'[d] = call[d] /\ todo'[d] = todo[d] /\ var'[d] = var[d] /\ outcome'[d] = outcome[d]
      /\ work'[d] = work[d]
  BY DEF Apart, DataApart
<1>2. ContentOK(d)'
  BY <1>1, OthersContent
<1>3. WorkOK(d)'
  <2>1. \A m : Taken(d, m)' <=> Taken(d, m)
    BY <1>1 DEF Taken, Ahead
  <2>2. CryptOK(d) => CryptOK(d)'
    BY <1>1, <2>1 DEF CryptOK, CallCiphertext
  <2>3. NewKeyOK(d) => NewKeyOK(d)'
    BY <1>1, <2>1 DEF NewKeyOK, KeyOK
  <2> QED BY <1>1, <2>2, <2>3 DEF WorkOK, Failing
<1>4. ArgumentsOK(d)'
  BY <1>1 DEF ArgumentsOK, DataApart, KeysOf
<1>5. OutcomeOK(d)'
  BY <1>1 DEF OutcomeOK, Failing
<1> QED BY <1>2, <1>3, <1>4, <1>5

-----------------------------------------------------------------------------
(* Which steps are in which programs. *)

\* Steps that only the programs of some functions have.
LEMMA WhoseSteps ==
  ASSUME NEW a, NEW m \in StepsOf(a)
  PROVE  /\ m[1] \in {"Load", "HmacStart", "EncryptDecrypt2", "SequenceComplete", "CheckLengths"}
              => a.op \in {"Seal", "Open"}
         /\ m[1] = "CheckTag" => a.op = "Open"
         /\ m[1] = "Create" \/ m[2] = "trial" => a.op = "NewKey"
         /\ m[1] \in {"Load", "Create"} => m[2] \in {"aes", "hmac"}
         /\ m[1] # "SequenceUpdate"
<1> DEFINE Crypt == {"Load", "HmacStart", "EncryptDecrypt2", "SequenceComplete", "CheckLengths"}
<1>1. CASE a.op = "NewKey"
  <2>1. m \in NewKeySteps(a.session.kind)
    BY <1>1 DEF StepsOf
  <2>2. m[1] \notin Crypt /\ m[1] # "CheckTag" /\ m[1] # "SequenceUpdate"
    BY <2>1 DEF NewKeySteps, SessionSteps
  <2>3. m[1] = "Create" => m[2] \in {"aes", "hmac"}
    BY <2>1 DEF NewKeySteps, SessionSteps
  <2> QED BY <1>1, <2>2, <2>3
<1>2. CASE a.op = "NewAESCTRHMAC"
  BY <1>2 DEF StepsOf, NewAEADSteps
<1>3. CASE a.op \in {"Seal", "Open"}
  <2>1. PICK kind, len : \/ a.op = "Seal" /\ m \in SealSteps(kind, len)
                         \/ a.op = "Open" /\ m \in OpenSteps(kind, len)
    BY <1>3 DEF StepsOf
  <2>2. m[1] # "Create" /\ m[2] # "trial" /\ m[1] # "SequenceUpdate"
    BY <2>1 DEF SealSteps, OpenSteps, CryptSteps, SessionSteps
  <2>3. m[1] = "Load" => m[2] \in {"aes", "hmac"}
    BY <2>1 DEF SealSteps, OpenSteps, CryptSteps, SessionSteps
  <2>4. m[1] = "CheckTag" => a.op = "Open"
    BY <2>1 DEF SealSteps, CryptSteps, SessionSteps
  <2> QED BY <1>3, <2>2, <2>3, <2>4
<1>4. CASE a.op \notin {"NewKey", "NewAESCTRHMAC", "Seal", "Open"}
  BY <1>4 DEF StepsOf
<1> QED BY <1>1, <1>2, <1>3, <1>4

\* Steps that all programs of a function have.
LEMMA HasSteps ==
  ASSUME NEW a
  PROVE  /\ a.op \in {"Seal", "Open"} =>
              {<<"CheckLengths", "none">>, <<"Load", "aes">>, <<"Load", "hmac">>,
               <<"HmacStart", "hmac">>, TagStep} \subseteq StepsOf(a)
         /\ a.op = "Open" => <<"CheckTag", "none">> \in StepsOf(a)
         /\ a.op = "NewKey" =>
              /\ {<<"StartAuthSession", "trial">>, <<"PolicyGetDigest", "trial">>,
                  <<"Create", "aes">>, <<"Create", "hmac">>} \subseteq StepsOf(a)
              /\ <<"PolicyPCR", "trial">> \in StepsOf(a) <=> a.session.kind \in {"pcr", "pcr_authvalue"}
              /\ <<"PolicyAuthValue", "trial">> \in StepsOf(a) <=>
                   a.session.kind \in {"authvalue", "pcr_authvalue"}
<1>1. CASE a.op = "NewKey"
  BY <1>1 DEF StepsOf, NewKeySteps, SessionSteps
<1>2. CASE a.op = "Seal"
  BY <1>2 DEF StepsOf, SealSteps, CryptSteps, TagStep
<1>3. CASE a.op = "Open"
  BY <1>3 DEF StepsOf, OpenSteps, CryptSteps, TagStep
<1> QED BY <1>1, <1>2, <1>3

\* The same when a call is at a step.
LEMMA StepOfOp ==
  ASSUME HandleInv, NEW c \in Client, NEW cmd, NEW v, AtStep(c, cmd, v)
  PROVE  /\ cmd \in {"Load", "CheckTag", "CheckLengths", "EncryptDecrypt2", "SequenceComplete"}
              => call[c].op \in {"Seal", "Open"}
         /\ cmd = "Load" => v \in {"aes", "hmac"}
         /\ cmd = "Create" => call[c].op = "NewKey" /\ v \in {"aes", "hmac"}
         /\ cmd # "SequenceUpdate" => <<cmd, v>> \in StepsOf(call[c])
<1>1. <<cmd, v>> \in StepsOf(call[c]) \union {Optional}
  BY Position
<1>2. cmd # "SequenceUpdate" => <<cmd, v>> \in StepsOf(call[c])
  BY <1>1 DEF Optional
<1>3. cmd \in CommandsOf(call[c].op)
  BY StepOfFunction DEF HandleInv, IInv, ClientOK, AtStep
<1>4. cmd \in {"Load", "CheckTag", "CheckLengths", "EncryptDecrypt2", "SequenceComplete"}
        => call[c].op \in {"Seal", "Open"}
  BY <1>3 DEF CommandsOf, SessionCommands
<1>5. cmd = "Create" => call[c].op = "NewKey"
  BY <1>3 DEF CommandsOf, CryptCommands, SessionCommands
<1> QED BY <1>2, <1>4, <1>5, WhoseSteps

-----------------------------------------------------------------------------
(* What is loaded for the call itself. *)

\* Taking a step that loads nothing leaves the keys and the sequence.
LEMMA PlainContent ==
  ASSUME HandleInv, NEW c \in Client, NEW cmd, NEW v, AtStep(c, cmd, v), Proceed(c),
         call' = call, outcome' = outcome, objects' \subseteq objects,
         \A u \in ObjectVariable : var'[c][u] = var[c][u],
         cmd \notin {"Load", "HmacStart"}
  PROVE  /\ KeysThere(c) => KeysThere(c)'
         /\ SequenceThere(c) => SequenceThere(c)'
         /\ PrimaryThere(c) /\ work'[c].aes = work[c].aes /\ cmd # "Create" => PrimaryThere(c)'
<1>1. /\ \A m : m # <<cmd, v>> => (Taken(c, m)' <=> Taken(c, m))
      /\ \A m : Ahead(c, m)' => Ahead(c, m)
  BY Proceeds, PositionAfter
<1>2. \A u \in {"aes", "hmac", "sequence", "primary"} : \A kind : Loaded(c, u, kind)' \subseteq Loaded(c, u, kind)
  BY DEF Loaded, ObjectsAt, ObjectVariable
<1>3. \A u : KeyFile(c, u)' = KeyFile(c, u)
  BY DEF KeyFile
<1>4. KeysThere(c) => KeysThere(c)'
  BY <1>1, <1>2, <1>3 DEF KeysThere
<1>5. SequenceThere(c) => SequenceThere(c)'
  BY <1>1, <1>2 DEF SequenceThere
<1>6. PrimaryThere(c) /\ work'[c].aes = work[c].aes /\ cmd # "Create" => PrimaryThere(c)'
  BY <1>1, <1>2 DEF PrimaryThere
<1> QED BY <1>4, <1>5, <1>6

\* Taking a step that asserts nothing leaves the trial session.
LEMMA PlainTrial ==
  ASSUME HandleInv, NEW c \in Client, NEW cmd, NEW v, AtStep(c, cmd, v), Proceed(c),
         call' = call, outcome' = outcome, var'[c]["trial"] = var[c]["trial"],
         <<cmd, v>> \notin {<<"StartAuthSession", "trial">>, <<"PolicyPCR", "trial">>,
                            <<"PolicyAuthValue", "trial">>},
         \/ \A s \in sessions' : \E x \in sessions : s.handle = x.handle /\ s.digest = x.digest
         \/ call[c].op # "NewKey",
         TrialThere(c)
  PROVE  TrialThere(c)'
<1>1. CASE call[c].op # "NewKey"
  BY <1>1, WhoseSteps DEF TrialThere, Taken
<1>2. CASE \A s \in sessions' : \E x \in sessions : s.handle = x.handle /\ s.digest = x.digest
  <2>1. /\ \A m : m # <<cmd, v>> => (Taken(c, m)' <=> Taken(c, m))
        /\ \A m : Ahead(c, m)' => Ahead(c, m)
    BY Proceeds, PositionAfter
  <2>2. AssertedIn(c, "trial")' = AssertedIn(c, "trial")
    BY <2>1 DEF AssertedIn
  <2>3. \A s \in OpenSession(c, "trial")' : \E x \in OpenSession(c, "trial") : s.digest = x.digest
    BY <1>2 DEF OpenSession, SessionsAt
  <2> QED BY <2>1, <2>2, <2>3 DEF TrialThere
<1> QED BY <1>1, <1>2

\* Where a call has loaded nothing, or forgets it, there is nothing to say.
LEMMA NothingThere ==
  ASSUME TypeOK', NEW c \in Client,
         c \notin served' \/ Failing(c)' \/ var'[c] = NoHandles
  PROVE  ContentOK(c)'
<1>1. CASE c \notin served' \/ Failing(c)'
  BY <1>1 DEF ContentOK
<1>2. CASE var'[c] = NoHandles
  <2>1. \A x \in (objects \union sessions)' : x.handle # NoHandle
    <3>1. /\ \A x \in objects' : x.handle \in ObjectHandle
          /\ \A x \in sessions' : x.handle \in SessionHandle
      BY DEF TypeOK, TPMTypeOK, Object, Session
    <3> QED BY <3>1, HandleShape DEF Handle
  <2>2. \A v \in Variable : var'[c][v] = NoHandle
    BY <1>2 DEF NoHandles
  <2>3. /\ \A v \in Variable : \A kind : Loaded(c, v, kind)' = {}
        /\ \A v \in Variable : OpenSession(c, v)' = {}
    BY <2>1, <2>2 DEF Loaded, ObjectsAt, OpenSession, SessionsAt
  <2>4. {"aes", "hmac", "sequence", "primary", "trial"} \subseteq Variable
    BY DEF Variable, ObjectVariable, SessionVariable
  <2> QED BY <2>3, <2>4 DEF ContentOK, KeysThere, SequenceThere, PrimaryThere, TrialThere
<1> QED BY <1>1, <1>2

-----------------------------------------------------------------------------
(* What a step of one client leaves alone. *)

\* Its steps, and what happens to it.
StepOf(c) == Calls(c) \/ Advance(c) \/ Accept(c) \/ CommandFault(c) \/ ConnectionLost(c) \/ Crash(c)

\* Variables of the others do not change.
LEMMA OthersApart ==
  ASSUME TypeOK, NEW c \in Client, NEW d \in Client \ {c}, StepOf(c)
  PROVE  /\ call'[d] = call[d] /\ todo'[d] = todo[d] /\ defers'[d] = defers[d] /\ var'[d] = var[d]
         /\ work'[d] = work[d] /\ outcome'[d] = outcome[d]
<1> DEFINE Same == /\ call'[d] = call[d] /\ todo'[d] = todo[d] /\ defers'[d] = defers[d]
                   /\ var'[d] = var[d] /\ work'[d] = work[d] /\ outcome'[d] = outcome[d]
<1>1. /\ call \in [Client -> CallType] /\ todo \in [Client -> Seq(Step)]
      /\ defers \in [Client -> Stack] /\ var \in [Client -> [Variable -> Handle \union {NoHandle}]]
      /\ work \in [Client -> WorkType] /\ outcome \in [Client -> OutcomeType]
  BY DEF TypeOK, Stack
<1>2. CASE Calls(c)
  <2> PICK a, program : Start(c, a, program)
    BY <1>2, CallStarts
  <2> QED BY <1>1 DEF Start
<1>3. ASSUME NEW why, Fail(c, why) PROVE Same
  <2>1. /\ todo' = [todo EXCEPT ![c] = <<>>] /\ UNCHANGED <<call, defers, var, work>>
        /\ \E o : outcome' = [outcome EXCEPT ![c] = o]
    BY <1>1, <1>3 DEF Fail
  <2> QED BY <1>1, <2>1
<1>4. CASE LocalStep(c)
  <2>1. CASE CheckLengths(c) \/ CheckKeys(c) \/ CheckTag(c)
    BY <1>1, <1>3, <2>1 DEF CheckLengths, CheckKeys, CheckTag, Check, Proceed
  <2>2. CASE Dial(c) \/ Defer(c)
    BY <1>1, <2>2 DEF Dial, Defer, Proceed, PushDefer
  <2> QED BY <1>4, <2>1, <2>2 DEF LocalStep
<1>5. CASE SessionCommand(c)
  <2>1. CASE PolicyGetDigest(c)
    BY <1>1, <2>1 DEF PolicyGetDigest, Executes, Proceed
  <2>2. ASSUME NEW v \in SessionVariable, StartAuthSession(c, v) PROVE Same
    BY <1>1, <2>2 DEF StartAuthSession, Executes, Proceed
  <2>3. ASSUME NEW v \in SessionVariable, PolicyPCR(c, v) \/ PolicyAuthValue(c, v) PROVE Same
    BY <1>1, <2>3 DEF PolicyPCR, PolicyAuthValue, Executes, Proceed
  <2> QED BY <1>5, <2>1, <2>2, <2>3 DEF SessionCommand
<1>6. CASE KeyCommand(c)
  <2>1. CASE CreatePrimary(c) \/ (\E v \in {"aes", "hmac"} : Load(c, v)) \/ HmacStart(c)
    <3>1. \E v, kind, key : LoadObject(c, v, kind, key)
      BY <2>1 DEF CreatePrimary, Load, HmacStart
    <3>2. \E cmd, v : Executes(c, cmd, v) /\ work' = work
      BY <2>1 DEF CreatePrimary, Load, HmacStart
    <3>3. var'[d] = var[d] /\ defers'[d] = defers[d]
      BY <1>1, <3>1 DEF LoadObject, PushDefer
    <3> QED BY <1>1, <3>2, <3>3 DEF Executes, Proceed
  <2>2. CASE \E v \in {"aes", "hmac"} : Create(c, v)
    BY <1>1, <2>2 DEF Create, Executes, Proceed
  <2>3. CASE EncryptDecrypt2(c) \/ ReadPublic(c)
    BY <1>1, <2>3 DEF EncryptDecrypt2, ReadPublic, Executes, Proceed
  <2>4. CASE SequenceUpdate(c) \/ SequenceComplete(c)
    BY <1>1, <2>4 DEF SequenceUpdate, SequenceComplete, Executes, Proceed
  <2> QED BY <1>6, <2>1, <2>2, <2>3, <2>4 DEF KeyCommand
<1>7. CASE CommandRefused(c) \/ CommandLost(c) \/ CommandFault(c)
  BY <1>3, <1>7 DEF CommandRefused, CommandLost, CommandFault
<1>8. CASE FlushContext(c) \/ DeferredFlush(c) \/ DeferredClose(c)
  BY <1>1, <1>8 DEF FlushContext, DeferredFlush, DeferredClose, Proceed
<1>9. CASE Returns(c)
  <2> PICK op, status : Ends(c, op, status)
    BY <1>9 DEF Returns, ReturnError, ReturnKeys, ReturnAEAD, ReturnSealed, ReturnOpened
  <2> QED BY <1>1 DEF Ends
<1>10. CASE Accept(c) \/ ConnectionLost(c)
  BY <1>1, <1>10, CutOutcome DEF Accept, ConnectionLost, callVars
<1>11. CASE Crash(c)
  <2>1. /\ todo' = [todo EXCEPT ![c] = <<>>] /\ defers' = [defers EXCEPT ![c] = <<>>]
        /\ var' = [var EXCEPT ![c] = NoHandles] /\ UNCHANGED <<call, work>>
        /\ \E o : outcome' = [outcome EXCEPT ![c] = o]
    BY <1>1, <1>11 DEF Crash
  <2> QED BY <1>1, <2>1
<1> QED BY <1>2, <1>4, <1>5, <1>6, <1>7, <1>8, <1>9, <1>10, <1>11 DEF StepOf, Advance

\* Nor do their connections.
LEMMA OthersConnections ==
  ASSUME TypeOK, NEW c \in Client, NEW d \in Client \ {c}, StepOf(c)
  PROVE  (d \in served' <=> d \in served) /\ (d \in conns' <=> d \in conns)
<1> DEFINE Same == (d \in served' <=> d \in served) /\ (d \in conns' <=> d \in conns)
<1>1. CASE Calls(c)
  <2> PICK a, program : Start(c, a, program)
    BY <1>1, CallStarts
  <2> QED BY DEF Start
<1>2. ASSUME NEW why, Fail(c, why) PROVE Same
  BY <1>2 DEF Fail, tpmVars
<1>3. ASSUME NEW cmd, NEW v, Executes(c, cmd, v) PROVE Same
  BY <1>3 DEF Executes
<1>4. CASE LocalStep(c)
  <2>1. CASE CheckLengths(c) \/ CheckKeys(c) \/ CheckTag(c)
    BY <1>2, <2>1 DEF CheckLengths, CheckKeys, CheckTag, Check, tpmVars
  <2>2. CASE Dial(c) \/ Defer(c)
    BY <2>2 DEF Dial, Defer, Connect, tpmVars
  <2> QED BY <1>4, <2>1, <2>2 DEF LocalStep
<1>5. CASE SessionCommand(c) \/ KeyCommand(c)
  <2>1. \E cmd, v : Executes(c, cmd, v)
    BY <1>5 DEF SessionCommand, KeyCommand, PolicyGetDigest, StartAuthSession, PolicyPCR, PolicyAuthValue,
       CreatePrimary, Create, Load, EncryptDecrypt2, ReadPublic, HmacStart, SequenceUpdate, SequenceComplete
  <2> QED BY <1>3, <2>1
<1>6. CASE CommandRefused(c) \/ CommandLost(c) \/ CommandFault(c)
  BY <1>2, <1>6 DEF CommandRefused, CommandLost, CommandFault
<1>7. CASE FlushContext(c) \/ DeferredFlush(c) \/ DeferredClose(c)
  BY <1>7 DEF FlushContext, DeferredFlush, DeferredClose
<1>8. CASE Returns(c)
  <2> PICK op, status : Ends(c, op, status)
    BY <1>8 DEF Returns, ReturnError, ReturnKeys, ReturnAEAD, ReturnSealed, ReturnOpened
  <2> QED BY DEF Ends, tpmVars
<1>9. CASE Accept(c) \/ ConnectionLost(c) \/ Crash(c)
  BY <1>9 DEF Accept, AcceptConnection, ConnectionLost, Crash
<1> QED BY <1>1, <1>4, <1>5, <1>6, <1>7, <1>8, <1>9 DEF StepOf, Advance

\* What calls have returned stays.
LEMMA ResultsStay ==
  ASSUME NEW c \in Client, StepOf(c)
  PROVE  /\ pairs \subseteq pairs' /\ aeads \subseteq aeads' /\ sealed \subseteq sealed'
         /\ ~Returns(c) => UNCHANGED <<pairs, aeads, sealed>>
<1>1. CASE Calls(c)
  BY <1>1 DEF Calls, NewKey, NewAESCTRHMAC, Seal, Open, Start, dataVars
<1>2. CASE LocalStep(c)
  BY <1>2 DEF LocalStep, CheckLengths, CheckKeys, CheckTag, Check, Fail, Dial, Defer, dataVars
<1>3. CASE SessionCommand(c) \/ KeyCommand(c)
  <2>1. \E cmd, v : Executes(c, cmd, v)
    BY <1>3 DEF SessionCommand, KeyCommand, PolicyGetDigest, StartAuthSession, PolicyPCR, PolicyAuthValue,
       CreatePrimary, Create, Load, EncryptDecrypt2, ReadPublic, HmacStart, SequenceUpdate, SequenceComplete
  <2> QED BY <2>1 DEF Executes
<1>4. CASE CommandRefused(c) \/ CommandLost(c) \/ CommandFault(c)
  BY <1>4 DEF CommandRefused, CommandLost, CommandFault, Fail, dataVars
<1>5. CASE FlushContext(c) \/ DeferredFlush(c) \/ DeferredClose(c)
  BY <1>5 DEF FlushContext, DeferredFlush, DeferredClose, dataVars
<1>6. CASE Returns(c)
  BY <1>6 DEF Returns, ReturnError, ReturnKeys, ReturnAEAD, ReturnSealed, ReturnOpened
<1>7. CASE Accept(c) \/ ConnectionLost(c) \/ Crash(c)
  BY <1>7 DEF Accept, ConnectionLost, Crash, dataVars
<1> QED BY <1>1, <1>2, <1>3, <1>4, <1>5, <1>6, <1>7 DEF StepOf, Advance

\* What is orphaned is still what it was.
LEMMA OrphanContent ==
  ASSUME TypeOK, NEW c \in Client,
         objects' \subseteq Orphan(c, objects), sessions' \subseteq Orphan(c, sessions)
  PROVE  Touches(c)
<1> DEFINE O(x) == [x EXCEPT !.owner = NoClient]
<1>1. objects \subseteq Object /\ sessions \subseteq Session
  BY DEF TypeOK, TPMTypeOK
<1>2. /\ \A x \in objects : O(x).handle = x.handle /\ O(x).kind = x.kind /\ O(x).key = x.key
      /\ \A x \in sessions : SameSession(O(x), x) /\ SameSession(x, x)
  BY <1>1 DEF Object, Session, SameSession
<1>3. /\ \A y \in objects' : \E x \in objects : y = IF x.owner = c THEN O(x) ELSE x
      /\ \A y \in sessions' : \E x \in sessions : y = IF x.owner = c THEN O(x) ELSE x
  BY DEF Orphan
<1> HIDE DEF O
<1> QED BY <1>2, <1>3 DEF Touches

\* The sessions that commands change are the call's own.
LEMMA SessionContent ==
  ASSUME HandleInv, NEW c \in Client, c \in served,
         \/ \E v \in SessionVariable : PolicyPCR(c, v) \/ PolicyAuthValue(c, v)
         \/ EncryptDecrypt2(c) \/ HmacStart(c)
  PROVE  \A s \in sessions' :
           (\E x \in sessions : SameSession(s, x)) \/ s.handle \in Own(c)
<1>1. sessions \subseteq Session /\ TypeOK
  BY DEF HandleInv, IInv, TypeOK, TPMTypeOK
<1>2. \A v \in SessionVariable : var[c][v] \in Own(c) \union {NoHandle}
  BY DEF HandleInv, HandlesOK, Own
<1>3. \A x \in sessions : x.handle # NoHandle
  BY <1>1, LoadingHandle DEF Loadings
<1>4. PICK f : /\ \A s \in sessions : f[s].handle = s.handle
               /\ sessions' = {f[s] : s \in sessions}
  BY <1>1, SessionsInPlace
<1>5. \E v \in SessionVariable : \A y \in sessions' : y \in sessions \/ y.handle = var[c][v]
  <2>1. ASSUME NEW v \in SessionVariable, PolicyPCR(c, v)
        PROVE  \A y \in sessions' : y \in sessions \/ y.handle = var[c][v]
    <3> DEFINE A(s) == [s EXCEPT !.digest = Append(@, PCRAssertion(call[c].session.digest)),
                                 !.pcrCount = IF s.trial THEN @ ELSE pcr.count]
    <3>1. sessions' = {IF s.handle = var[c][v] THEN A(s) ELSE s : s \in sessions}
      BY <2>1 DEF PolicyPCR, ChangeSession
    <3>2. \A s \in sessions : A(s).handle = s.handle
      BY <1>1 DEF Session
    <3> HIDE DEF A
    <3> QED BY <3>1, <3>2
  <2>2. ASSUME NEW v \in SessionVariable, PolicyAuthValue(c, v)
        PROVE  \A y \in sessions' : y \in sessions \/ y.handle = var[c][v]
    <3> DEFINE A(s) == [s EXCEPT !.digest = Append(@, AuthAssertion)]
    <3>1. sessions' = {IF s.handle = var[c][v] THEN A(s) ELSE s : s \in sessions}
      BY <2>2 DEF PolicyAuthValue, ChangeSession
    <3>2. \A s \in sessions : A(s).handle = s.handle
      BY <1>1 DEF Session
    <3> HIDE DEF A
    <3> QED BY <3>1, <3>2
  <2>3. CASE EncryptDecrypt2(c) \/ HmacStart(c)
    <3> PICK v \in SessionVariable :
             sessions' = {IF s.handle = var[c][v] THEN ResetSession(s) ELSE s : s \in sessions}
      BY <2>3 DEF EncryptDecrypt2, HmacStart, ChangeSession, SessionVariable
    <3>1. \A s \in sessions : ResetSession(s).handle = s.handle
      BY <1>1 DEF Session, ResetSession
    <3> QED BY <3>1
  <2> QED BY <2>1, <2>2, <2>3
<1>6. PICK v \in SessionVariable : \A y \in sessions' : y \in sessions \/ y.handle = var[c][v]
  BY <1>5
<1>7. \A y \in sessions' : y.handle # NoHandle
  BY <1>3, <1>4
<1> QED BY <1>2, <1>6, <1>7 DEF SameSession

\* A step changes what is loaded in its client's own space only.
LEMMA StepTouches ==
  ASSUME HandleInv, NEW c \in Client, StepOf(c)
  PROVE  Touches(c)
<1>1. TypeOK
  BY DEF HandleInv, IInv
<1>2. objects' \subseteq objects /\ sessions' \subseteq sessions => Touches(c)
  BY DEF Touches, SameSession
<1>3. CASE Calls(c)
  <2> PICK a, program : Start(c, a, program)
    BY <1>1, <1>3, CallStarts
  <2> QED BY <1>1, OrphanContent DEF Start
<1>4. CASE LocalStep(c)
  BY <1>2, <1>4 DEF LocalStep, CheckLengths, CheckKeys, CheckTag, Check, Fail, Dial, Defer, tpmVars
<1>5. CASE PolicyGetDigest(c) \/ ReadPublic(c) \/ SequenceUpdate(c) \/ (\E v \in {"aes", "hmac"} : Create(c, v))
  BY <1>2, <1>5 DEF PolicyGetDigest, ReadPublic, SequenceUpdate, Create
<1>6. CASE SequenceComplete(c)
  BY <1>2, <1>6 DEF SequenceComplete
<1>7. ASSUME NEW v \in SessionVariable, StartAuthSession(c, v) PROVE Touches(c)
  <2> PICK h \in Allocated(FreeSessionHandles(c)) :
        sessions' = sessions \union
             {NewSession(c, h, v = "trial", SessionPassword(call[c].session, v = "trial"))}
    BY <1>7 DEF StartAuthSession
  <2>1. h \in Own(c) /\ c \in served /\ objects' = objects
    BY <1>7, LoadedAt DEF StartAuthSession, Executes, Served
  <2> QED BY <2>1 DEF Touches, NewSession, SameSession
<1>8. CASE (\E v \in SessionVariable : PolicyPCR(c, v) \/ PolicyAuthValue(c, v)) \/ EncryptDecrypt2(c)
  <2>1. c \in served /\ objects' = objects
    BY <1>8 DEF PolicyPCR, PolicyAuthValue, EncryptDecrypt2, Executes, Served
  <2> QED BY <1>8, <2>1, SessionContent DEF Touches
<1>9. CASE CreatePrimary(c) \/ (\E v \in {"aes", "hmac"} : Load(c, v)) \/ HmacStart(c)
  <2>1. \E v, kind, key : LoadObject(c, v, kind, key)
    BY <1>9 DEF CreatePrimary, Load, HmacStart
  <2>2. \E h \in Allocated(FreeObjectHandles(c)) : \E kind, key :
          objects' = objects \union {NewObject(c, h, kind, key)}
    BY <2>1 DEF LoadObject
  <2>3. c \in served
    BY <1>9 DEF CreatePrimary, Load, HmacStart, Executes, Served
  <2>4. \A o \in objects' : o \in objects \/ o.handle \in Own(c)
    BY <2>2, LoadedAt DEF NewObject
  <2>5. \A s \in sessions' :
           (\E x \in sessions : SameSession(s, x)) \/ s.handle \in Own(c)
    <3>1. CASE CreatePrimary(c) \/ (\E v \in {"aes", "hmac"} : Load(c, v))
      BY <3>1 DEF CreatePrimary, Load, SameSession
    <3>2. CASE HmacStart(c)
      BY <2>3, <3>2, SessionContent
    <3> QED BY <1>9, <3>1, <3>2
  <2> QED BY <2>3, <2>4, <2>5 DEF Touches
<1>10. CASE CommandRefused(c) \/ CommandLost(c) \/ CommandFault(c)
  BY <1>2, <1>10 DEF CommandRefused, CommandLost, CommandFault, Fail, tpmVars
<1>11. CASE FlushContext(c) \/ DeferredFlush(c) \/ DeferredClose(c)
  BY <1>2, <1>11 DEF FlushContext, DeferredFlush, DeferredClose, Flush, Remaining
<1>12. CASE Returns(c)
  <2> PICK op, status : Ends(c, op, status)
    BY <1>12 DEF Returns, ReturnError, ReturnKeys, ReturnAEAD, ReturnSealed, ReturnOpened
  <2> QED BY <1>2 DEF Ends, tpmVars
<1>13. CASE Accept(c)
  BY <1>2, <1>13 DEF Accept, AcceptConnection
<1>14. CASE ConnectionLost(c)
  BY <1>1, <1>14, OrphanContent DEF ConnectionLost
<1>15. CASE Crash(c)
  BY <1>1, <1>15, OrphanContent, RemainingOrphans DEF Crash
<1> QED BY <1>3, <1>4, <1>5, <1>6, <1>7, <1>8, <1>9, <1>10, <1>11, <1>12, <1>13, <1>14, <1>15
       DEF StepOf, Advance, SessionCommand, KeyCommand

-----------------------------------------------------------------------------
(* What is at a call's own handles, step by step. *)

\* Taking a step that neither loads nor creates nor asserts.
LEMMA PlainOwn ==
  ASSUME HandleInv, NEW c \in Client, ContentOK(c), NEW cmd, NEW v, AtStep(c, cmd, v), Proceed(c),
         UNCHANGED <<call, outcome, var, served>>, work'[c].aes = work[c].aes, objects' \subseteq objects,
         cmd \notin {"Load", "HmacStart", "Create", "StartAuthSession", "PolicyPCR", "PolicyAuthValue"},
         \/ \A s \in sessions' : \E x \in sessions : s.handle = x.handle /\ s.digest = x.digest
         \/ call[c].op # "NewKey"
  PROVE  ContentOK(c)'
<1> SUFFICES ASSUME c \in served, ~Failing(c), KeysThere(c), SequenceThere(c), PrimaryThere(c), TrialThere(c)
             PROVE  KeysThere(c)' /\ SequenceThere(c)' /\ PrimaryThere(c)' /\ TrialThere(c)'
  BY DEF ContentOK, Failing
<1>1. KeysThere(c)' /\ SequenceThere(c)' /\ PrimaryThere(c)'
  BY PlainContent
<1>2. TrialThere(c)'
  BY PlainTrial
<1> QED BY <1>1, <1>2

\* The library's own steps, flushes, and commands that neither load nor assert.
LEMMA PlainOwnSteps ==
  ASSUME HandleInv, NEW c \in Client, ContentOK(c),
         Defer(c) \/ FlushContext(c) \/ PolicyGetDigest(c) \/ ReadPublic(c) \/ SequenceUpdate(c)
           \/ SequenceComplete(c) \/ EncryptDecrypt2(c)
  PROVE  ContentOK(c)'
<1>1. work \in [Client -> WorkType] /\ work[c] \in WorkType
  BY DEF HandleInv, IInv, TypeOK
<1>2. CASE Defer(c)
  <2> PICK v \in SessionVariable \union {"hmac"} :
        /\ AtStep(c, "Defer", v) /\ Proceed(c)
        /\ UNCHANGED <<call, var, work, outcome, tpmVars, dataVars, events>>
    BY <1>2 DEF Defer
  <2> QED BY PlainOwn DEF tpmVars
<1>3. CASE FlushContext(c)
  <2> PICK v \in Variable :
        /\ AtStep(c, "FlushContext", v) /\ Proceed(c)
        /\ UNCHANGED <<call, defers, var, work, outcome, conns, served, pcr, hier, dataVars, events>>
    BY <1>3 DEF FlushContext
  <2>1. objects' \subseteq objects /\ sessions' \subseteq sessions
    BY <1>3 DEF FlushContext, Flush
  <2> QED BY <2>1, PlainOwn
<1>4. CASE PolicyGetDigest(c)
  <2>1. /\ AtStep(c, "PolicyGetDigest", "trial") /\ Proceed(c)
        /\ UNCHANGED <<call, outcome, var, served>> /\ objects' = objects /\ sessions' = sessions
    BY <1>4 DEF PolicyGetDigest, Executes
  <2>2. \E p : work' = [work EXCEPT ![c].policy = p]
    BY <1>4 DEF PolicyGetDigest
  <2>3. work'[c].aes = work[c].aes
    BY <1>1, <2>2 DEF WorkType
  <2> QED BY <2>1, <2>3, PlainOwn
<1>5. CASE ReadPublic(c) \/ SequenceUpdate(c)
  <2> PICK cmd \in {"ReadPublic", "SequenceUpdate"} : \E v :
        /\ AtStep(c, cmd, v) /\ Proceed(c)
        /\ UNCHANGED <<call, outcome, var, served, work, objects, sessions>>
    BY <1>5 DEF ReadPublic, SequenceUpdate, Executes
  <2> PICK v :
        /\ AtStep(c, cmd, v) /\ Proceed(c)
        /\ UNCHANGED <<call, outcome, var, served, work, objects, sessions>>
    OBVIOUS
  <2> QED BY PlainOwn
<1>6. CASE SequenceComplete(c)
  <2>1. /\ AtStep(c, "SequenceComplete", "sequence") /\ Proceed(c)
        /\ UNCHANGED <<call, outcome, var, served>> /\ objects' \subseteq objects /\ sessions' = sessions
    BY <1>6 DEF SequenceComplete, Executes
  <2>2. \E t : work' = [work EXCEPT ![c].tag = t]
    BY <1>6 DEF SequenceComplete
  <2>3. work'[c].aes = work[c].aes
    BY <1>1, <2>2 DEF WorkType
  <2> QED BY <2>1, <2>3, PlainOwn
<1>7. CASE EncryptDecrypt2(c)
  <2>1. /\ AtStep(c, "EncryptDecrypt2", "aes") /\ Proceed(c)
        /\ UNCHANGED <<call, outcome, var, served>> /\ objects' = objects
    BY <1>7 DEF EncryptDecrypt2, Executes
  <2>2. \E b : work' = [work EXCEPT ![c].by = b]
    <3>1. PICK k : work' = [work EXCEPT ![c].by = @ \union {k}]
      BY <1>7 DEF EncryptDecrypt2
    <3>2. work' = [work EXCEPT ![c].by = work[c].by \union {k}]
      BY <3>1
    <3> QED BY <3>2
  <2>3. work'[c].aes = work[c].aes
    BY <1>1, <2>2 DEF WorkType
  <2>4. call[c].op # "NewKey"
    BY <2>1, StepOfOp
  <2> QED BY <2>1, <2>3, <2>4, PlainOwn
<1> QED BY <1>2, <1>3, <1>4, <1>5, <1>6, <1>7

\* A call that gives up is failing.
LEMMA FailFails ==
  ASSUME TypeOK, NEW c \in Client, NEW why, why # "none", Fail(c, why)
  PROVE  /\ Failing(c)'
         /\ outcome'[c].status = outcome[c].status
<1> DEFINE o == [outcome[c] EXCEPT !.why = why, !.at = NextStep(c)[1]]
<1>1. outcome \in [Client -> OutcomeType] /\ outcome[c] \in OutcomeType
  BY DEF TypeOK
<1>2. outcome' = [outcome EXCEPT ![c] = o]
  BY <1>1 DEF Fail
<1>3. o.why = why /\ o.status = outcome[c].status
  BY <1>1 DEF OutcomeType
<1> HIDE DEF o
<1> QED BY <1>1, <1>2, <1>3 DEF Failing

\* A check that passes, or ends the call.
LEMMA CheckOwn ==
  ASSUME HandleInv, TypeOK', NEW c \in Client, ContentOK(c),
         NEW cmd \in {"CheckLengths", "CheckKeys", "CheckTag"}, NEW ok,
         NEW why \in {"length", "nil key", "tag"}, Check(c, cmd, ok, why)
  PROVE  ContentOK(c)'
<1>1. CASE ok
  BY <1>1, PlainOwn DEF Check, tpmVars
<1>2. CASE ~ok
  <2>1. Fail(c, why)
    BY <1>2 DEF Check
  <2>2. Failing(c)'
    BY <2>1, FailFails DEF HandleInv, IInv
  <2> QED BY <2>2, NothingThere
<1> QED BY <1>1, <1>2

\* When a call opens its connection it has loaded nothing.
LEMMA DialOwn ==
  ASSUME HandleInv, TypeOK', NEW c \in Client, Dial(c)
  PROVE  ContentOK(c)'
<1>1. AtStep(c, "Dial", "none") /\ Proceed(c) /\ UNCHANGED <<call, outcome>>
  BY DEF Dial
<1>2. /\ \A m : m # <<"Dial", "none">> => (Taken(c, m)' <=> Taken(c, m))
      /\ <<"Dial", "none">> \in StepsOf(call[c])
      /\ \A m \in StepsOf(call[c]) :
           /\ PlaceOf(call[c].op, m) \in Nat
           /\ Taken(c, m) <=> PlaceOf(call[c].op, m) < PlaceOf(call[c].op, <<"Dial", "none">>)
  BY <1>1, Position, PositionAfter, StepOfOp
<1> DEFINE early == \A m \in StepsOf(call[c]) :
             m # <<"CheckLengths", "none">> => ~(PlaceOf(call[c].op, m) < PlaceOf(call[c].op, <<"Dial", "none">>))
<1>3. early
  <2>1. CASE call[c].op = "NewKey"
    <3>1. \A m \in NewKeySteps(call[c].session.kind) : 1 <= PlaceOf("NewKey", m)
      BY NewKeyPlaces DEF NewKeySteps, SessionSteps, SessionAt
    <3> QED BY <1>2, <2>1, <3>1, NewKeyPlaces DEF StepsOf
  <2>2. CASE call[c].op = "NewAESCTRHMAC"
    BY <1>2, <2>2, NewAEADPlaces DEF StepsOf, NewAEADSteps
  <2>3. CASE call[c].op = "Seal"
    <3> DEFINE kind == call[c].session.kind
    <3>1. PICK len : StepsOf(call[c]) = SealSteps(kind, len)
      BY <2>3 DEF StepsOf
    <3>2. /\ \A m \in SessionSteps(kind, "aesSession") : 2 <= PlaceOf("Seal", m)
          /\ \A m \in SessionSteps(kind, "hmacSession") : 2 <= PlaceOf("Seal", m)
      BY SealPlaces DEF SessionSteps, SessionAt
    <3>3. \A m \in SealSteps(kind, len) : m # <<"CheckLengths", "none">> => 2 <= PlaceOf("Seal", m)
      <4> SUFFICES ASSUME NEW m \in SealSteps(kind, len), m # <<"CheckLengths", "none">>
                   PROVE  2 <= PlaceOf("Seal", m)
        OBVIOUS
      <4>1. CASE m \in SessionSteps(kind, "aesSession") \union SessionSteps(kind, "hmacSession")
        BY <3>2, <4>1
      <4>2. CASE m \notin SessionSteps(kind, "aesSession") \union SessionSteps(kind, "hmacSession")
        BY <4>2, SealPlaces DEF SealSteps, CryptSteps
      <4> QED BY <4>1, <4>2
    <3> QED BY <1>2, <2>3, <3>1, <3>3, SealPlaces
  <2>4. CASE call[c].op = "Open"
    <3> DEFINE kind == call[c].session.kind
    <3>1. PICK len : StepsOf(call[c]) = OpenSteps(kind, len)
      BY <2>4 DEF StepsOf
    <3>2. /\ \A m \in SessionSteps(kind, "aesSession") : 2 <= PlaceOf("Open", m)
          /\ \A m \in SessionSteps(kind, "hmacSession") : 2 <= PlaceOf("Open", m)
      BY OpenPlaces DEF SessionSteps, SessionAt
    <3>3. \A m \in OpenSteps(kind, len) : m # <<"CheckLengths", "none">> => 2 <= PlaceOf("Open", m)
      <4> SUFFICES ASSUME NEW m \in OpenSteps(kind, len), m # <<"CheckLengths", "none">>
                   PROVE  2 <= PlaceOf("Open", m)
        OBVIOUS
      <4>1. CASE m \in SessionSteps(kind, "aesSession") \union SessionSteps(kind, "hmacSession")
        BY <3>2, <4>1
      <4>2. CASE m \notin SessionSteps(kind, "aesSession") \union SessionSteps(kind, "hmacSession")
        BY <4>2, OpenPlaces DEF OpenSteps, CryptSteps
      <4> QED BY <4>1, <4>2
    <3> QED BY <1>2, <2>4, <3>1, <3>3, OpenPlaces
  <2>5. CASE call[c].op \notin {"NewKey", "NewAESCTRHMAC", "Seal", "Open"}
    BY <2>5 DEF StepsOf
  <2> QED BY <2>1, <2>2, <2>3, <2>4, <2>5
<1>4. \A m : ~Taken(c, m)' \/ m \in {<<"CheckLengths", "none">>, <<"Dial", "none">>}
  <2>1. \A m : Taken(c, m) => m \in StepsOf(call[c])
    BY DEF Taken
  <2> QED BY <1>2, <1>3, <2>1
<1> QED BY <1>4 DEF ContentOK, KeysThere, SequenceThere, PrimaryThere, TrialThere

\* Where a call to Seal is, in numbers, ...
LEMMA SealPosition ==
  ASSUME HandleInv, NEW c \in Client, NEW cmd, NEW v, AtStep(c, cmd, v), call[c].op = "Seal",
         NEW p, p = PlaceOf("Seal", <<cmd, v>>)
  PROVE  /\ p \in Nat
         /\ Taken(c, <<"Load", "aes">>) <=> 4 < p
         /\ Taken(c, <<"Load", "hmac">>) <=> 12 < p
         /\ Taken(c, <<"HmacStart", "hmac">>) <=> 18 < p
         /\ Taken(c, TagStep) <=> 20 < p
         /\ Ahead(c, <<"HmacStart", "hmac">>) <=> p <= 18
         /\ Ahead(c, TagStep) <=> p <= 20
         /\ Ahead(c, AESStep) => p <= 9
<1>1. /\ p \in Nat
      /\ \A m \in StepsOf(call[c]) :
           /\ PlaceOf("Seal", m) \in Nat
           /\ Taken(c, m) <=> PlaceOf("Seal", m) < p
           /\ Ahead(c, m) <=> ~(PlaceOf("Seal", m) < p)
  BY Position DEF Taken
<1>2. \A m : Ahead(c, m) => m \in StepsOf(call[c]) \union {Optional}
  <2>1. EndOf(call[c], todo[c])
    BY DEF HandleInv, OrderOK
  <2>2. \A i \in 1..Len(todo[c]) : todo[c][i] \in StepsOf(call[c]) \union {Optional}
    BY <2>1 DEF EndOf
  <2> QED BY <2>2 DEF Ahead
<1>3. {<<"Load", "aes">>, <<"Load", "hmac">>, <<"HmacStart", "hmac">>, TagStep} \subseteq StepsOf(call[c])
  BY HasSteps
<1>4. AESStep # Optional
  BY DEF AESStep, Optional
<1> QED BY <1>1, <1>2, <1>3, <1>4, SealPlaces DEF AESStep, TagStep

\* ... a call to Open ...
LEMMA OpenPosition ==
  ASSUME HandleInv, NEW c \in Client, NEW cmd, NEW v, AtStep(c, cmd, v), call[c].op = "Open",
         NEW p, p = PlaceOf("Open", <<cmd, v>>)
  PROVE  /\ p \in Nat
         /\ Taken(c, <<"Load", "hmac">>) <=> 4 < p
         /\ Taken(c, <<"HmacStart", "hmac">>) <=> 10 < p
         /\ Taken(c, TagStep) <=> 12 < p
         /\ Taken(c, <<"CheckTag", "none">>) <=> 15 < p
         /\ Taken(c, <<"Load", "aes">>) <=> 16 < p
         /\ Ahead(c, <<"HmacStart", "hmac">>) <=> p <= 10
         /\ Ahead(c, TagStep) <=> p <= 12
<1>1. /\ p \in Nat
      /\ \A m \in StepsOf(call[c]) :
           /\ PlaceOf("Open", m) \in Nat
           /\ Taken(c, m) <=> PlaceOf("Open", m) < p
           /\ Ahead(c, m) <=> ~(PlaceOf("Open", m) < p)
  BY Position DEF Taken
<1>2. /\ {<<"Load", "aes">>, <<"Load", "hmac">>, <<"HmacStart", "hmac">>, TagStep} \subseteq StepsOf(call[c])
      /\ <<"CheckTag", "none">> \in StepsOf(call[c])
  BY HasSteps
<1> QED BY <1>1, <1>2, OpenPlaces DEF TagStep

\* ... and one to NewKey.
LEMMA NewKeyPosition ==
  ASSUME HandleInv, NEW c \in Client, NEW cmd, NEW v, AtStep(c, cmd, v), call[c].op = "NewKey",
         NEW p, p = PlaceOf("NewKey", <<cmd, v>>)
  PROVE  /\ p \in Nat
         /\ Taken(c, <<"StartAuthSession", "trial">>) <=> 2 < p
         /\ Taken(c, <<"PolicyPCR", "trial">>) <=>
              3 < p /\ call[c].session.kind \in {"pcr", "pcr_authvalue"}
         /\ Taken(c, <<"PolicyAuthValue", "trial">>) <=>
              4 < p /\ call[c].session.kind \in {"authvalue", "pcr_authvalue"}
         /\ Taken(c, <<"PolicyGetDigest", "trial">>) <=> 6 < p
         /\ Taken(c, <<"Create", "aes">>) <=> 8 < p
         /\ Taken(c, <<"Create", "hmac">>) <=> 9 < p
         /\ Ahead(c, <<"PolicyGetDigest", "trial">>) <=> p <= 6
<1>1. /\ p \in Nat
      /\ \A m \in StepsOf(call[c]) :
           /\ PlaceOf("NewKey", m) \in Nat
           /\ Taken(c, m) <=> PlaceOf("NewKey", m) < p
           /\ Ahead(c, m) <=> ~(PlaceOf("NewKey", m) < p)
      /\ \A m : Taken(c, m) => m \in StepsOf(call[c])
  BY Position DEF Taken
<1>2. /\ {<<"StartAuthSession", "trial">>, <<"PolicyGetDigest", "trial">>,
          <<"Create", "aes">>, <<"Create", "hmac">>} \subseteq StepsOf(call[c])
      /\ <<"PolicyPCR", "trial">> \in StepsOf(call[c]) <=> call[c].session.kind \in {"pcr", "pcr_authvalue"}
      /\ <<"PolicyAuthValue", "trial">> \in StepsOf(call[c]) <=>
           call[c].session.kind \in {"authvalue", "pcr_authvalue"}
  BY HasSteps
<1>3. /\ PlaceOf("NewKey", <<"StartAuthSession", "trial">>) = 2
      /\ PlaceOf("NewKey", <<"PolicyPCR", "trial">>) = 3
      /\ PlaceOf("NewKey", <<"PolicyAuthValue", "trial">>) = 4
      /\ PlaceOf("NewKey", <<"PolicyGetDigest", "trial">>) = 6
      /\ PlaceOf("NewKey", <<"Create", "aes">>) = 8
      /\ PlaceOf("NewKey", <<"Create", "hmac">>) = 9
  BY NewKeyPlaces DEF SessionAt
<1>4. p \in Nat /\ (Taken(c, <<"StartAuthSession", "trial">>) <=> 2 < p)
  BY <1>1, <1>2, <1>3
<1>5. /\ Taken(c, <<"PolicyPCR", "trial">>) <=>
           3 < p /\ call[c].session.kind \in {"pcr", "pcr_authvalue"}
      /\ Taken(c, <<"PolicyAuthValue", "trial">>) <=>
           4 < p /\ call[c].session.kind \in {"authvalue", "pcr_authvalue"}
  BY <1>1, <1>2, <1>3
<1>6. /\ Taken(c, <<"PolicyGetDigest", "trial">>) <=> 6 < p
      /\ Ahead(c, <<"PolicyGetDigest", "trial">>) <=> p <= 6
  BY <1>1, <1>2, <1>3
<1>7. /\ Taken(c, <<"Create", "aes">>) <=> 8 < p
      /\ Taken(c, <<"Create", "hmac">>) <=> 9 < p
  BY <1>1, <1>2, <1>3
<1> QED BY <1>4, <1>5, <1>6, <1>7

\* Steps of other functions are not taken.
LEMMA NotTaken ==
  ASSUME NEW c
  PROVE  /\ call[c].op \notin {"Seal", "Open"} =>
              \A m : m[1] \in {"Load", "HmacStart", "SequenceComplete", "EncryptDecrypt2"} => ~Taken(c, m)
         /\ call[c].op # "NewKey" => \A m : m[1] = "Create" \/ m[2] = "trial" => ~Taken(c, m)
BY WhoseSteps DEF Taken

\* At its new handle is what the call has just loaded.
LEMMA LoadedNew ==
  ASSUME TypeOK, NEW c \in Client, NEW v \in ObjectVariable, NEW kind, NEW key, LoadObject(c, v, kind, key)
  PROVE  /\ \A o \in objects' : o.handle = var'[c][v] => o.key = key
         /\ \A u \in Variable \ {v} : var'[c][u] = var[c][u]
<1> PICK h \in Allocated(FreeObjectHandles(c)) :
        /\ objects' = objects \union {NewObject(c, h, kind, key)}
        /\ var' = [var EXCEPT ![c][v] = h]
  BY DEF LoadObject
<1>1. \A o \in objects : o.handle # h
  BY DEF Allocated, FreeObjectHandles
<1>2. var'[c][v] = h /\ \A u \in Variable \ {v} : var'[c][u] = var[c][u]
  BY DEF TypeOK, Variable
<1> QED BY <1>1, <1>2 DEF NewObject

\* A loaded key is the instance's.
LEMMA LoadOwn ==
  ASSUME HandleInv, NEW c \in Client, NEW v \in {"aes", "hmac"}, Load(c, v)
  PROVE  ContentOK(c)'
<1>1. /\ AtStep(c, "Load", v) /\ Proceed(c) /\ UNCHANGED <<call, outcome>>
      /\ LoadObject(c, v, "key", KeyFile(c, v)) /\ TypeOK
  BY DEF Load, Executes, HandleInv, IInv
<1>2. call[c].op \in {"Seal", "Open"}
  BY <1>1, StepOfOp
<1>3. /\ \A m : m # <<"Load", v>> => (Taken(c, m)' <=> Taken(c, m))
      /\ \A m : Ahead(c, m)' => Ahead(c, m)
  BY <1>1, Proceeds, PositionAfter
<1>4. KeyFile(c, v)' = KeyFile(c, v)
  BY <1>1 DEF KeyFile
<1>5. \A o \in Loaded(c, v, "key")' : o.key = KeyFile(c, v)'
  BY <1>1, <1>4, LoadedNew DEF ObjectVariable, Loaded, ObjectsAt
<1>6. \A u \in {"aes", "hmac"} \ {v} : ~(Taken(c, <<"Load", u>>) /\ Ahead(c, LastUse[u]))
  <2>1. CASE call[c].op = "Seal"
    BY <1>1, <2>1, SealPosition, SealPlaces DEF LastUse
  <2>2. CASE call[c].op = "Open"
    BY <1>1, <2>2, OpenPosition, OpenPlaces DEF LastUse
  <2> QED BY <1>2, <2>1, <2>2
<1>7. ~(Taken(c, <<"HmacStart", "hmac">>) /\ Ahead(c, TagStep))
  <2>1. CASE call[c].op = "Seal"
    BY <1>1, <2>1, SealPosition, SealPlaces
  <2>2. CASE call[c].op = "Open"
    BY <1>1, <2>2, OpenPosition, OpenPlaces
  <2> QED BY <1>2, <2>1, <2>2
<1>8. KeysThere(c)'
  BY <1>3, <1>5, <1>6 DEF KeysThere
<1>9. SequenceThere(c)'
  BY <1>3, <1>7 DEF SequenceThere
<1>10. PrimaryThere(c)' /\ TrialThere(c)'
  BY <1>2, <1>3, NotTaken DEF PrimaryThere, TrialThere
<1> QED BY <1>8, <1>9, <1>10 DEF ContentOK

\* A sequence computes with the instance's HMAC key.
LEMMA HmacStartOwn ==
  ASSUME HandleInv, NEW c \in Client, ContentOK(c), HmacStart(c)
  PROVE  ContentOK(c)'
<1> SUFFICES ASSUME ~Failing(c)' PROVE ContentOK(c)'
  BY DEF ContentOK
<1>1. /\ AtStep(c, "HmacStart", "hmac") /\ Proceed(c) /\ UNCHANGED <<call, outcome>> /\ c \in served
      /\ TypeOK
  BY DEF HmacStart, Executes, Served, HandleInv, IInv
<1>2. PICK k \in Loaded(c, "hmac", "key") : LoadObject(c, "sequence", "sequence", k.key)
  BY DEF HmacStart
<1>3. <<"HmacStart", "hmac">> \in StepsOf(call[c]) /\ call[c].op \in {"Seal", "Open"}
  BY <1>1, StepOfOp, WhoseSteps
<1>4. /\ \A m : m # <<"HmacStart", "hmac">> => (Taken(c, m)' <=> Taken(c, m))
      /\ \A m : Ahead(c, m)' => Ahead(c, m)
      /\ ~Ahead(c, <<"HmacStart", "hmac">>)'
  BY <1>1, Proceeds, PositionAfter DEF Repeated, Optional
<1>5. k.key = KeyFile(c, "hmac")
  <2>1. KeysThere(c)
    BY <1>1 DEF ContentOK, Failing
  <2>2. Taken(c, <<"Load", "hmac">>) /\ Ahead(c, LastUse["hmac"])
    <3>1. CASE call[c].op = "Seal"
      BY <1>1, <3>1, SealPosition, SealPlaces DEF LastUse
    <3>2. CASE call[c].op = "Open"
      BY <1>1, <3>2, OpenPosition, OpenPlaces DEF LastUse
    <3> QED BY <1>3, <3>1, <3>2
  <2> QED BY <2>1, <2>2 DEF KeysThere
<1>6. KeyFile(c, "hmac") = call'[c].aead.hmac
  BY <1>1 DEF KeyFile
<1>7. \A o \in Loaded(c, "sequence", "sequence")' : o.key = call'[c].aead.hmac
  BY <1>1, <1>2, <1>5, <1>6, LoadedNew DEF ObjectVariable, Loaded, ObjectsAt
<1>8. ~(Taken(c, <<"Load", "aes">>) /\ Ahead(c, LastUse["aes"]))
  <2>1. CASE call[c].op = "Seal"
    BY <1>1, <2>1, SealPosition, SealPlaces DEF LastUse
  <2>2. CASE call[c].op = "Open"
    BY <1>1, <2>2, OpenPosition, OpenPlaces
  <2> QED BY <1>3, <2>1, <2>2
<1>9. KeysThere(c)'
  BY <1>4, <1>8 DEF KeysThere, LastUse
<1>10. SequenceThere(c)'
  BY <1>7 DEF SequenceThere
<1>11. PrimaryThere(c)' /\ TrialThere(c)'
  BY <1>3, <1>4, NotTaken DEF PrimaryThere, TrialThere
<1> QED BY <1>9, <1>10, <1>11 DEF ContentOK

\* When the primary is loaded nothing is in use.
LEMMA CreatePrimaryOwn ==
  ASSUME HandleInv, NEW c \in Client, CreatePrimary(c)
  PROVE  ContentOK(c)'
<1>1. AtStep(c, "CreatePrimary", "primary") /\ Proceed(c) /\ UNCHANGED <<call, outcome>>
  BY DEF CreatePrimary, Executes
<1>2. /\ \A m : m # <<"CreatePrimary", "primary">> => (Taken(c, m)' <=> Taken(c, m))
      /\ \A m : Ahead(c, m)' => Ahead(c, m)
  BY <1>1, Proceeds, PositionAfter
<1>3. CASE call[c].op = "NewKey"
  <2>1. ~Taken(c, <<"Create", "aes">>) /\ ~Ahead(c, <<"PolicyGetDigest", "trial">>)
    BY <1>1, <1>3, NewKeyPosition, NewKeyPlaces
  <2> QED BY <1>2, <1>3, <2>1, NotTaken DEF ContentOK, KeysThere, SequenceThere, PrimaryThere, TrialThere
<1>4. CASE call[c].op = "Seal"
  <2>1. \A m \in {<<"Load", "aes">>, <<"Load", "hmac">>, <<"HmacStart", "hmac">>} : ~Taken(c, m)
    BY <1>1, <1>4, SealPosition, SealPlaces
  <2> QED BY <1>2, <1>4, <2>1, NotTaken DEF ContentOK, KeysThere, SequenceThere, PrimaryThere, TrialThere
<1>5. CASE call[c].op = "Open"
  <2>1. \A m \in {<<"Load", "aes">>, <<"Load", "hmac">>, <<"HmacStart", "hmac">>} : ~Taken(c, m)
    BY <1>1, <1>5, OpenPosition, OpenPlaces
  <2> QED BY <1>2, <1>5, <2>1, NotTaken DEF ContentOK, KeysThere, SequenceThere, PrimaryThere, TrialThere
<1>6. CASE call[c].op \notin {"NewKey", "Seal", "Open"}
  BY <1>2, <1>6, NotTaken DEF ContentOK, KeysThere, SequenceThere, PrimaryThere, TrialThere
<1> QED BY <1>3, <1>4, <1>5, <1>6

-----------------------------------------------------------------------------
(* Policy sessions. *)

\* The calls that open the session in v.
UsesSession(a, v) ==
  \/ a.op = "NewKey" /\ v = "trial"
  \/ a.op \in {"Seal", "Open"} /\ v \in {"aesSession", "hmacSession"}

LEMMA WhoseSessions ==
  ASSUME NEW a, NEW v \in SessionVariable,
         NEW cmd \in {"StartAuthSession", "PolicyPCR", "PolicyAuthValue"}, <<cmd, v>> \in StepsOf(a)
  PROVE  UsesSession(a, v)
<1>1. a.op \in {"NewKey", "NewAESCTRHMAC", "Seal", "Open"}
  BY DEF StepsOf
<1>2. CASE a.op = "NewKey"
  BY <1>2 DEF StepsOf, NewKeySteps, SessionSteps, UsesSession
<1>3. CASE a.op = "NewAESCTRHMAC"
  BY <1>3 DEF StepsOf, NewAEADSteps
<1>4. CASE a.op = "Seal"
  BY <1>4 DEF StepsOf, SealSteps, CryptSteps, SessionSteps, UsesSession
<1>5. CASE a.op = "Open"
  BY <1>5 DEF StepsOf, OpenSteps, CryptSteps, SessionSteps, UsesSession
<1> QED BY <1>1, <1>2, <1>3, <1>4, <1>5

\* Its steps, in the order of the program.
LEMMA SessionPlace ==
  ASSUME NEW a, NEW v, UsesSession(a, v)
  PROVE  /\ <<"StartAuthSession", v>> \in StepsOf(a)
         /\ <<"PolicyPCR", v>> \in StepsOf(a) <=> a.session.kind \in {"pcr", "pcr_authvalue"}
         /\ <<"PolicyAuthValue", v>> \in StepsOf(a) <=> a.session.kind \in {"authvalue", "pcr_authvalue"}
         /\ \E n \in Nat :
              /\ SessionAt(a.op, v, n) /\ n + 3 < PlaceOf(a.op, SessionUse[v])
              /\ PlaceOf(a.op, SessionUse[v]) \in Nat
              /\ <<"FlushContext", v>> \in StepsOf(a) =>
                   /\ PlaceOf(a.op, <<"FlushContext", v>>) \in Nat
                   /\ PlaceOf(a.op, SessionUse[v]) < PlaceOf(a.op, <<"FlushContext", v>>)
<1>1. /\ SessionUse["trial"] = <<"PolicyGetDigest", "trial">>
      /\ SessionUse["aesSession"] = <<"EncryptDecrypt2", "aes">>
      /\ SessionUse["hmacSession"] = <<"HmacStart", "hmac">>
  BY DEF SessionUse, AESStep
<1>2. CASE a.op = "NewKey" /\ v = "trial"
  <2>1. StepsOf(a) = NewKeySteps(a.session.kind) /\ <<"FlushContext", v>> \notin StepsOf(a)
    BY <1>2 DEF StepsOf, NewKeySteps, SessionSteps
  <2>2. SessionAt(a.op, v, 2) /\ PlaceOf(a.op, SessionUse[v]) = 6
    BY <1>1, <1>2, NewKeyPlaces
  <2>3. /\ <<"StartAuthSession", v>> \in StepsOf(a)
        /\ <<"PolicyPCR", v>> \in StepsOf(a) <=> a.session.kind \in {"pcr", "pcr_authvalue"}
        /\ <<"PolicyAuthValue", v>> \in StepsOf(a) <=> a.session.kind \in {"authvalue", "pcr_authvalue"}
    BY <1>2, <2>1 DEF NewKeySteps, SessionSteps
  <2> QED BY <2>1, <2>2, <2>3
<1>3. CASE a.op = "Seal" /\ v \in {"aesSession", "hmacSession"}
  <2>1. StepsOf(a) = SealSteps(a.session.kind, a.pt.len)
    BY <1>3 DEF StepsOf
  <2>2. /\ <<"StartAuthSession", v>> \in StepsOf(a)
        /\ <<"PolicyPCR", v>> \in StepsOf(a) <=> a.session.kind \in {"pcr", "pcr_authvalue"}
        /\ <<"PolicyAuthValue", v>> \in StepsOf(a) <=> a.session.kind \in {"authvalue", "pcr_authvalue"}
        /\ <<"FlushContext", v>> \in StepsOf(a) => v = "aesSession"
    BY <1>3, <2>1 DEF SealSteps, CryptSteps, SessionSteps
  <2>3. CASE v = "aesSession"
    <3>1. /\ SessionAt(a.op, v, 5) /\ PlaceOf(a.op, SessionUse[v]) = 9
          /\ PlaceOf(a.op, <<"FlushContext", v>>) = 11
      BY <1>1, <1>3, <2>3, SealPlaces
    <3> QED BY <2>2, <3>1
  <2>4. CASE v = "hmacSession"
    <3>1. SessionAt(a.op, v, 13) /\ PlaceOf(a.op, SessionUse[v]) = 18
      BY <1>1, <1>3, <2>4, SealPlaces
    <3> QED BY <2>2, <2>4, <3>1
  <2> QED BY <1>3, <2>3, <2>4
<1>4. CASE a.op = "Open" /\ v \in {"aesSession", "hmacSession"}
  <2>1. StepsOf(a) = OpenSteps(a.session.kind, a.ct.pt.len)
    BY <1>4 DEF StepsOf
  <2>2. /\ <<"StartAuthSession", v>> \in StepsOf(a)
        /\ <<"PolicyPCR", v>> \in StepsOf(a) <=> a.session.kind \in {"pcr", "pcr_authvalue"}
        /\ <<"PolicyAuthValue", v>> \in StepsOf(a) <=> a.session.kind \in {"authvalue", "pcr_authvalue"}
        /\ <<"FlushContext", v>> \in StepsOf(a) => v = "hmacSession"
    BY <1>4, <2>1 DEF OpenSteps, CryptSteps, SessionSteps
  <2>3. CASE v = "hmacSession"
    <3>1. /\ SessionAt(a.op, v, 5) /\ PlaceOf(a.op, SessionUse[v]) = 10
          /\ PlaceOf(a.op, <<"FlushContext", v>>) = 13
      BY <1>1, <1>4, <2>3, OpenPlaces
    <3> QED BY <2>2, <3>1
  <2>4. CASE v = "aesSession"
    <3>1. SessionAt(a.op, v, 17) /\ PlaceOf(a.op, SessionUse[v]) = 21
      BY <1>1, <1>4, <2>4, OpenPlaces
    <3> QED BY <2>2, <2>4, <3>1
  <2> QED BY <1>4, <2>3, <2>4
<1> QED BY <1>2, <1>3, <1>4 DEF UsesSession

\* A new session has no assertions yet, ...
LEMMA AssertedNone ==
  ASSUME HandleInv, NEW c \in Client, NEW v \in SessionVariable, AtStep(c, "StartAuthSession", v), Proceed(c),
         call' = call, outcome' = outcome
  PROVE  AssertedIn(c, v)' = <<>>
<1>1. UsesSession(call[c], v)
  BY StepOfOp, WhoseSessions
<1>2. PICK n \in Nat : SessionAt(call[c].op, v, n)
  BY <1>1, SessionPlace
<1>3. /\ PlaceOf(call[c].op, <<"StartAuthSession", v>>) = n
      /\ PlaceOf(call[c].op, <<"PolicyPCR", v>>) = n + 1
      /\ PlaceOf(call[c].op, <<"PolicyAuthValue", v>>) = n + 2
  BY <1>2 DEF SessionAt
<1>4. \A m : Taken(c, m) => m \in StepsOf(call[c]) /\ PlaceOf(call[c].op, m) < n
  BY <1>3, Position DEF Taken
<1>5. ~Taken(c, <<"PolicyPCR", v>>) /\ ~Taken(c, <<"PolicyAuthValue", v>>)
  BY <1>3, <1>4
<1>6. ~Taken(c, <<"PolicyPCR", v>>)' /\ ~Taken(c, <<"PolicyAuthValue", v>>)'
  <2>1. \A m : m # <<"StartAuthSession", v>> => (Taken(c, m)' <=> Taken(c, m))
    BY PositionAfter
  <2> QED BY <1>5, <2>1
<1> QED BY <1>6 DEF AssertedIn

\* A sequence with one more element.
LEMMA OneMore ==
  ASSUME NEW S, NEW s \in Seq(S), NEW e \in S
  PROVE  /\ <<e>> \in Seq(S) /\ <<>> \in Seq(S)
         /\ s \o <<>> = s /\ <<>> \o s = s
         /\ s \o <<e>> = Append(s, e)
OBVIOUS

\* ... and each policy command adds one.
AssertedBy(c, cmd) ==
  IF cmd = "PolicyPCR" THEN PCRAssertion(call[c].session.digest) ELSE AuthAssertion

LEMMA AssertedMore ==
  ASSUME HandleInv, NEW c \in Client, NEW v \in SessionVariable, NEW cmd \in {"PolicyPCR", "PolicyAuthValue"},
         AtStep(c, cmd, v), Proceed(c), call' = call, outcome' = outcome
  PROVE  /\ UsesSession(call[c], v) /\ Taken(c, <<"StartAuthSession", v>>)
         /\ AssertedIn(c, v)' = Append(AssertedIn(c, v), AssertedBy(c, cmd))
<1>1. UsesSession(call[c], v) /\ <<cmd, v>> \in StepsOf(call[c])
  BY StepOfOp, WhoseSessions
<1>2. PICK n \in Nat : SessionAt(call[c].op, v, n)
  BY <1>1, SessionPlace
<1>3. /\ PlaceOf(call[c].op, <<"StartAuthSession", v>>) = n
      /\ PlaceOf(call[c].op, <<"PolicyPCR", v>>) = n + 1
      /\ PlaceOf(call[c].op, <<"PolicyAuthValue", v>>) = n + 2
  BY <1>2 DEF SessionAt
<1>4. /\ <<"StartAuthSession", v>> \in StepsOf(call[c])
      /\ \A m \in StepsOf(call[c]) :
           Taken(c, m) <=> PlaceOf(call[c].op, m) < PlaceOf(call[c].op, <<cmd, v>>)
      /\ \A m : Taken(c, m) => m \in StepsOf(call[c])
  BY <1>1, Position, SessionPlace DEF Taken
<1>5. /\ Taken(c, <<"StartAuthSession", v>>)
      /\ cmd = "PolicyPCR" => ~Taken(c, <<"PolicyPCR", v>>) /\ ~Taken(c, <<"PolicyAuthValue", v>>)
      /\ cmd = "PolicyAuthValue" => ~Taken(c, <<"PolicyAuthValue", v>>)
  BY <1>3, <1>4
<1>6. /\ Taken(c, <<cmd, v>>)'
      /\ \A m : m # <<cmd, v>> => (Taken(c, m)' <=> Taken(c, m))
  BY <1>1, PositionAfter DEF Taken, Repeated, Optional
<1> DEFINE x == AssertedBy(c, cmd)
           e == PCRAssertion(call[c].session.digest)
           p == IF Taken(c, <<"PolicyPCR", v>>) THEN <<e>> ELSE <<>>
<1>7. AssertedIn(c, v) = p \o (IF Taken(c, <<"PolicyAuthValue", v>>) THEN <<AuthAssertion>> ELSE <<>>)
  BY DEF AssertedIn
<1>8. AssertedIn(c, v)' = p' \o (IF Taken(c, <<"PolicyAuthValue", v>>)' THEN <<AuthAssertion>> ELSE <<>>)
  BY DEF AssertedIn
<1>9. e' = e
  OBVIOUS
<1>10. \A q : q \in {<<e>>, <<>>} => q \o <<>> = q /\ q \o <<AuthAssertion>> = Append(q, AuthAssertion)
  <2> HIDE DEF e
  <2> QED BY OneMore
<1>11. CASE cmd = "PolicyPCR"
  <2>1. p = <<>> /\ p' = <<e>> /\ x = e
    BY <1>5, <1>6, <1>9, <1>11 DEF AssertedBy
  <2>2. ~Taken(c, <<"PolicyAuthValue", v>>) /\ ~Taken(c, <<"PolicyAuthValue", v>>)'
    BY <1>5, <1>6, <1>11
  <2> HIDE DEF p, x, e
  <2>3. AssertedIn(c, v) = <<>> /\ AssertedIn(c, v)' = <<e>>
    BY <1>7, <1>8, <1>10, <2>1, <2>2
  <2>4. Append(<<>>, e) = <<e>>
    OBVIOUS
  <2> QED BY <1>1, <1>5, <2>1, <2>3, <2>4 DEF x
<1>12. CASE cmd = "PolicyAuthValue"
  <2>1. p' = p /\ p \in {<<e>>, <<>>} /\ x = AuthAssertion
    BY <1>6, <1>9, <1>12 DEF AssertedBy
  <2>2. ~Taken(c, <<"PolicyAuthValue", v>>) /\ Taken(c, <<"PolicyAuthValue", v>>)'
    BY <1>5, <1>6, <1>12
  <2> HIDE DEF p, x, e
  <2>3. AssertedIn(c, v) = p /\ AssertedIn(c, v)' = p \o <<AuthAssertion>>
    BY <1>7, <1>8, <1>10, <2>1, <2>2
  <2> QED BY <1>1, <1>5, <1>10, <2>1, <2>3 DEF x
<1> QED BY <1>11, <1>12

\* A session that PolicyPCR adds the assertion x to, and what it does to the
\* sessions.
PCRAsserted(s, x, n) ==
  [s EXCEPT !.digest = Append(@, x), !.pcrCount = IF s.trial THEN @ ELSE n]

LEMMA AssertedSession ==
  ASSUME NEW s \in Session, NEW x, NEW n
  PROVE  /\ PCRAsserted(s, x, n).handle = s.handle
         /\ PCRAsserted(s, x, n).trial = s.trial /\ PCRAsserted(s, x, n).password = s.password
         /\ PCRAsserted(s, x, n).digest = Append(s.digest, x)
         /\ PCRAsserted(s, x, n).pcrCount \in {s.pcrCount, n}
BY DEF Session, PCRAsserted

LEMMA PCRSessions ==
  ASSUME NEW c, NEW v, PolicyPCR(c, v)
  PROVE  sessions' = {IF s.handle = var[c][v]
                        THEN PCRAsserted(s, PCRAssertion(call[c].session.digest), pcr.count)
                        ELSE s : s \in sessions}
BY ZenonT(30) DEF PolicyPCR, ChangeSession, PCRAsserted

\* What a policy command does to the sessions.
LEMMA PolicySessions ==
  ASSUME TypeOK, NEW c \in Client, NEW v \in SessionVariable, NEW cmd \in {"PolicyPCR", "PolicyAuthValue"},
         \/ cmd = "PolicyPCR" /\ PolicyPCR(c, v)
         \/ cmd = "PolicyAuthValue" /\ PolicyAuthValue(c, v)
  PROVE  \A s \in sessions' : \E y \in sessions :
           /\ s.handle = y.handle /\ s.trial = y.trial /\ s.password = y.password
           /\ s.handle = var[c][v] =>
                /\ s.digest = Append(y.digest, AssertedBy(c, cmd))
                /\ s.pcrCount = y.pcrCount \/ s.pcrCount = pcr.count
           /\ s.handle # var[c][v] => s.digest = y.digest /\ s.pcrCount = y.pcrCount
<1>3. sessions \subseteq Session
  BY DEF TypeOK, TPMTypeOK
<1>1. CASE cmd = "PolicyPCR"
  <2> DEFINE x == AssertedBy(c, cmd)
             n == pcr.count
  <2>1. PolicyPCR(c, v) /\ x = PCRAssertion(call[c].session.digest)
    BY <1>1 DEF AssertedBy
  <2> HIDE DEF x, n
  <2>2. sessions' = {IF s.handle = var[c][v] THEN PCRAsserted(s, x, n) ELSE s : s \in sessions}
    BY <2>1, PCRSessions DEF n
  <2>3. \A s \in sessions :
          /\ PCRAsserted(s, x, n).handle = s.handle
          /\ PCRAsserted(s, x, n).trial = s.trial /\ PCRAsserted(s, x, n).password = s.password
          /\ PCRAsserted(s, x, n).digest = Append(s.digest, x)
          /\ PCRAsserted(s, x, n).pcrCount \in {s.pcrCount, n}
    BY <1>3, AssertedSession
  <2>4. \A s \in sessions' : \E y \in sessions :
          /\ s.handle = y.handle /\ s.trial = y.trial /\ s.password = y.password
          /\ s.handle = var[c][v] => s.digest = Append(y.digest, x) /\ s.pcrCount \in {y.pcrCount, n}
          /\ s.handle # var[c][v] => s = y
    BY <2>2, <2>3
  <2> QED BY <2>4 DEF x, n
<1>2. CASE cmd = "PolicyAuthValue"
  <2> DEFINE A(s) == [s EXCEPT !.digest = Append(@, AuthAssertion)]
             x == AssertedBy(c, cmd)
  <2>1. sessions' = {IF s.handle = var[c][v] THEN A(s) ELSE s : s \in sessions}
    BY <1>2 DEF PolicyAuthValue, ChangeSession
  <2>2. \A s \in sessions :
          /\ A(s).handle = s.handle /\ A(s).trial = s.trial /\ A(s).password = s.password
          /\ A(s).digest = Append(s.digest, x) /\ A(s).pcrCount = s.pcrCount
    BY <1>2, <1>3 DEF Session, AssertedBy
  <2> HIDE DEF A, x
  <2>3. \A s \in sessions' : \E y \in sessions :
          /\ s.handle = y.handle /\ s.trial = y.trial /\ s.password = y.password
          /\ s.handle = var[c][v] => s.digest = Append(y.digest, x) /\ s.pcrCount = y.pcrCount
          /\ s.handle # var[c][v] => s = y
    BY <2>1, <2>2
  <2> QED BY <2>3 DEF x
<1> QED BY <1>1, <1>2

\* A new session has no assertion yet.
LEMMA StartAuthSessionOwn ==
  ASSUME HandleInv, NEW c \in Client, ContentOK(c), NEW v \in SessionVariable, StartAuthSession(c, v)
  PROVE  ContentOK(c)'
<1>1. /\ AtStep(c, "StartAuthSession", v) /\ Proceed(c) /\ UNCHANGED <<call, outcome, served>>
      /\ objects' = objects /\ work' = work /\ TypeOK
  BY DEF StartAuthSession, Executes, HandleInv, IInv
<1> SUFFICES ASSUME c \in served, ~Failing(c), KeysThere(c), SequenceThere(c), PrimaryThere(c), TrialThere(c)
             PROVE  KeysThere(c)' /\ SequenceThere(c)' /\ PrimaryThere(c)' /\ TrialThere(c)'
  BY <1>1 DEF ContentOK, Failing
<1> PICK h \in Allocated(FreeSessionHandles(c)) :
      /\ sessions' = sessions \union
           {NewSession(c, h, v = "trial", SessionPassword(call[c].session, v = "trial"))}
      /\ var' = [var EXCEPT ![c][v] = h]
  BY DEF StartAuthSession
<1>2. \A u \in Variable : var'[c][u] = IF u = v THEN h ELSE var[c][u]
  BY <1>1 DEF TypeOK
<1>3. \A u \in ObjectVariable : var'[c][u] = var[c][u]
  BY <1>2 DEF Variable, ObjectVariable, SessionVariable
<1>4. KeysThere(c)' /\ SequenceThere(c)' /\ PrimaryThere(c)'
  BY <1>1, <1>3, PlainContent
<1>5. TrialThere(c)'
  <2>1. CASE v # "trial"
    <3>1. var'[c]["trial"] = var[c]["trial"]
      BY <1>2, <2>1 DEF Variable, SessionVariable
    <3>2. call[c].op # "NewKey"
      <4>1. <<"StartAuthSession", v>> \in StepsOf(call[c])
        BY <1>1, StepOfOp
      <4> QED BY <2>1, <4>1 DEF StepsOf, NewKeySteps, SessionSteps
    <3> QED BY <1>1, <2>1, <3>1, <3>2, PlainTrial
  <2>2. CASE v = "trial"
    <3>1. AssertedIn(c, "trial")' = <<>>
      BY <1>1, <2>2, AssertedNone
    <3>2. \A s \in sessions : s.handle # h
      BY DEF Allocated, FreeSessionHandles
    <3>3. \A s \in OpenSession(c, "trial")' : s.digest = <<>>
      BY <1>2, <2>2, <3>2 DEF OpenSession, SessionsAt, NewSession, Variable, SessionVariable
    <3> QED BY <3>1, <3>3 DEF TrialThere
  <2> QED BY <2>1, <2>2
<1> QED BY <1>4, <1>5

\* A trial session has the assertions made in it.
LEMMA PolicyOwn ==
  ASSUME HandleInv, NEW c \in Client, ContentOK(c), NEW v \in SessionVariable,
         PolicyPCR(c, v) \/ PolicyAuthValue(c, v)
  PROVE  ContentOK(c)'
<1> PICK cmd \in {"PolicyPCR", "PolicyAuthValue"} :
      \/ cmd = "PolicyPCR" /\ PolicyPCR(c, v)
      \/ cmd = "PolicyAuthValue" /\ PolicyAuthValue(c, v)
  OBVIOUS
<1>1. /\ AtStep(c, cmd, v) /\ Proceed(c) /\ UNCHANGED <<call, outcome, served>>
      /\ objects' = objects /\ work' = work /\ var' = var
      /\ TypeOK /\ sessions \subseteq Session
  BY DEF PolicyPCR, PolicyAuthValue, Executes, HandleInv, IInv, TypeOK, TPMTypeOK
<1> SUFFICES ASSUME c \in served, ~Failing(c), KeysThere(c), SequenceThere(c), PrimaryThere(c), TrialThere(c)
             PROVE  KeysThere(c)' /\ SequenceThere(c)' /\ PrimaryThere(c)' /\ TrialThere(c)'
  BY <1>1 DEF ContentOK, Failing
<1>2. KeysThere(c)' /\ SequenceThere(c)' /\ PrimaryThere(c)'
  BY <1>1, PlainContent
<1>3. CASE v # "trial"
  <2>1. call[c].op # "NewKey"
    <3>1. <<cmd, v>> \in StepsOf(call[c])
      BY <1>1, StepOfOp
    <3> QED BY <1>3, <3>1 DEF StepsOf, NewKeySteps, SessionSteps
  <2>2. TrialThere(c)'
    BY <1>1, <1>3, <2>1, PlainTrial
  <2> QED BY <1>2, <2>2
<1>4. CASE v = "trial"
  <2>1. /\ UsesSession(call[c], v) /\ Taken(c, <<"StartAuthSession", v>>)
        /\ AssertedIn(c, v)' = Append(AssertedIn(c, v), AssertedBy(c, cmd))
    BY <1>1, AssertedMore
  <2>2. \A m : Ahead(c, m)' => Ahead(c, m)
    BY <1>1, Proceeds
  <2>3. \A s \in sessions' : s.handle = var[c][v] =>
          \E y \in sessions : s.handle = y.handle /\ s.digest = Append(y.digest, AssertedBy(c, cmd))
    BY <1>1, PolicySessions
  <2>4. TrialThere(c)'
    BY <1>1, <1>4, <2>1, <2>2, <2>3 DEF TrialThere, OpenSession, SessionsAt
  <2> QED BY <1>2, <2>4
<1> QED BY <1>3, <1>4

\* After the first key is created, the primary is the one it is a child of.
LEMMA CreateOwn ==
  ASSUME HandleInv, NEW c \in Client, ContentOK(c), NEW v \in {"aes", "hmac"}, Create(c, v)
  PROVE  ContentOK(c)'
<1>1. /\ AtStep(c, "Create", v) /\ Proceed(c) /\ UNCHANGED <<call, outcome, served>>
      /\ objects' = objects /\ sessions' = sessions /\ var' = var
      /\ TypeOK /\ UniqueHandles
  BY DEF Create, Executes, HandleInv, IInv
<1> SUFFICES ASSUME c \in served, ~Failing(c), KeysThere(c), SequenceThere(c), PrimaryThere(c), TrialThere(c)
             PROVE  KeysThere(c)' /\ SequenceThere(c)' /\ PrimaryThere(c)' /\ TrialThere(c)'
  BY <1>1 DEF ContentOK, Failing
<1>2. KeysThere(c)' /\ SequenceThere(c)'
  BY <1>1, PlainContent
<1>3. TrialThere(c)'
  BY <1>1, PlainTrial
<1>4. PrimaryThere(c)'
  <2>1. CASE v = "hmac"
    <3>1. ~Ahead(c, <<"Create", "hmac">>)'
      BY <1>1, <2>1, PositionAfter DEF Repeated, Optional
    <3> QED BY <3>1 DEF PrimaryThere
  <2>2. CASE v = "aes"
    <3>1. PICK p \in Loaded(c, "primary", "primary") :
            work' = [work EXCEPT ![c][v] = [id |-> made + 1, kind |-> v, seed |-> p.key.seed,
                                            policy |-> work[c].policy, auth |-> call[c].keyPass]]
      BY DEF Create
    <3>2. work[c] \in WorkType /\ work \in [Client -> WorkType]
      BY <1>1 DEF TypeOK
    <3>3. work'[c].aes.seed = p.key.seed
      BY <2>2, <3>1, <3>2 DEF WorkType
    <3>4. \A q \in Loaded(c, "primary", "primary")' : q = p
      BY <1>1 DEF Loaded, ObjectsAt, UniqueHandles
    <3> QED BY <3>3, <3>4 DEF PrimaryThere
  <2> QED BY <2>1, <2>2
<1> QED BY <1>2, <1>3, <1>4

\* A command that fails ends the call.
LEMMA CommandFailing ==
  ASSUME TypeOK, NEW c \in Client, CommandRefused(c) \/ CommandLost(c) \/ CommandFault(c)
  PROVE  Failing(c)' /\ outcome'[c].status = outcome[c].status
<1>1. PICK why : why # "none" /\ Fail(c, why)
  BY DEF CommandRefused, CommandLost, CommandFault, Reason
<1> QED BY <1>1, FailFails

\* Whatever step a call takes, what is at the handles it uses is what it put there.
LEMMA OwnContent ==
  ASSUME HandleInv, TypeOK', NEW c \in Client, ContentOK(c), StepOf(c)
  PROVE  ContentOK(c)'
<1>1. TypeOK /\ StackOK(c) /\ HandlesOK(c) /\ served \subseteq conns
  BY DEF HandleInv, IInv, TypeOK, TPMTypeOK
<1>2. CASE Calls(c)
  <2> PICK a, program : Start(c, a, program)
    BY <1>1, <1>2, CallStarts
  <2>1. c \notin served'
    BY <1>1, IdleReleased DEF Start, Connected
  <2> QED BY <2>1, NothingThere
<1>3. CASE LocalStep(c)
  BY <1>3, CheckOwn, DialOwn, PlainOwnSteps DEF LocalStep, CheckLengths, CheckKeys, CheckTag
<1>4. CASE SessionCommand(c)
  BY <1>4, PlainOwnSteps, StartAuthSessionOwn, PolicyOwn DEF SessionCommand
<1>5. CASE KeyCommand(c)
  BY <1>5, CreatePrimaryOwn, CreateOwn, LoadOwn, PlainOwnSteps, HmacStartOwn DEF KeyCommand
<1>6. CASE CommandRefused(c) \/ CommandLost(c) \/ CommandFault(c)
  BY <1>1, <1>6, CommandFailing, NothingThere
<1>7. CASE FlushContext(c)
  BY <1>7, PlainOwnSteps
<1>8. CASE DeferredFlush(c)
  <2>1. /\ UNCHANGED <<call, todo, var, work, outcome, served>>
        /\ objects' \subseteq objects /\ sessions' \subseteq sessions
    BY <1>8 DEF DeferredFlush, Flush
  <2>2. \A v, kind : /\ Loaded(c, v, kind)' \subseteq Loaded(c, v, kind)
                     /\ OpenSession(c, v)' \subseteq OpenSession(c, v)
    BY <2>1 DEF Loaded, ObjectsAt, OpenSession, SessionsAt
  <2>3. /\ \A m : (Taken(c, m)' <=> Taken(c, m)) /\ (Ahead(c, m)' <=> Ahead(c, m))
        /\ AssertedIn(c, "trial")' = AssertedIn(c, "trial")
        /\ \A v : KeyFile(c, v)' = KeyFile(c, v)
    BY <2>1 DEF Taken, Ahead, AssertedIn, KeyFile
  <2> QED BY <2>1, <2>2, <2>3 DEF ContentOK, Failing, KeysThere, SequenceThere, PrimaryThere, TrialThere
<1>9. CASE DeferredClose(c) \/ ConnectionLost(c) \/ Crash(c)
  <2>1. c \notin served'
    BY <1>9 DEF DeferredClose, ConnectionLost, Crash
  <2> QED BY <2>1, NothingThere
<1>10. CASE Returns(c)
  <2> PICK op, status : Ends(c, op, status)
    BY <1>10 DEF Returns, ReturnError, ReturnKeys, ReturnAEAD, ReturnSealed, ReturnOpened
  <2>1. var'[c] = NoHandles
    BY <1>1 DEF Ends, TypeOK
  <2> QED BY <2>1, NothingThere
<1>11. CASE Accept(c)
  <2>1. var'[c] = NoHandles
    BY <1>1, <1>11 DEF Accept, AcceptConnection, HandlesOK, Connected, callVars
  <2> QED BY <2>1, NothingThere
<1> QED BY <1>2, <1>3, <1>4, <1>5, <1>6, <1>7, <1>8, <1>9, <1>10, <1>11 DEF StepOf, Advance

-----------------------------------------------------------------------------
(* What a call computes, step by step. *)

\* The steps after which the call knows more than before.
WorkSteps ==
  {AESStep, TagStep, <<"CheckLengths", "none">>, <<"CheckTag", "none">>,
   <<"PolicyGetDigest", "trial">>, <<"Create", "aes">>, <<"Create", "hmac">>}

\* Other steps, and those of which nothing is taken, keep the results.
LEMMA WorkKept ==
  ASSUME NEW c \in Client, WorkOK(c), call'[c] = call[c], work'[c] = work[c],
         Failing(c) => Failing(c)', \A m \in WorkSteps : Taken(c, m)' <=> Taken(c, m)
  PROVE  WorkOK(c)'
<1>1. CryptOK(c) => CryptOK(c)'
  BY DEF CryptOK, CallCiphertext, WorkSteps
<1>2. NewKeyOK(c) => NewKeyOK(c)'
  BY DEF NewKeyOK, KeyOK, WorkSteps
<1> QED BY <1>1, <1>2 DEF WorkOK

\* Taking one of the other steps.
LEMMA PlainWork ==
  ASSUME HandleInv, NEW c \in Client, WorkOK(c), NEW cmd, NEW v, AtStep(c, cmd, v), Proceed(c),
         UNCHANGED <<call, outcome, work>>, <<cmd, v>> \notin WorkSteps
  PROVE  WorkOK(c)'
<1>1. \A m \in WorkSteps : Taken(c, m)' <=> Taken(c, m)
  BY PositionAfter
<1> QED BY <1>1, WorkKept DEF Failing

\* The step a call is at is ahead.
LEMMA AtAhead ==
  ASSUME TypeOK, NEW c \in Client, NEW cmd, NEW v, AtStep(c, cmd, v)
  PROVE  Ahead(c, <<cmd, v>>)
<1>1. todo[c] \in Seq(Step) /\ todo[c] # <<>> /\ Head(todo[c]) = <<cmd, v>>
  BY DEF TypeOK, AtStep, NextStep
<1>2. 1 \in 1..Len(todo[c]) /\ todo[c][1] = <<cmd, v>>
  BY <1>1
<1> QED BY <1>2 DEF Ahead

\* The library's checks.
LEMMA CheckWork ==
  ASSUME HandleInv, NEW c \in Client, WorkOK(c), CheckLengths(c) \/ CheckKeys(c) \/ CheckTag(c)
  PROVE  WorkOK(c)'
<1> SUFFICES ASSUME ~Failing(c)' PROVE WorkOK(c)'
  BY DEF WorkOK
<1>1. TypeOK
  BY DEF HandleInv, IInv
<1>2. ASSUME NEW cmd, NEW ok, NEW why, why # "none", Check(c, cmd, ok, why)
      PROVE  ok /\ AtStep(c, cmd, "none") /\ Proceed(c) /\ UNCHANGED <<call, work, outcome>>
  BY <1>1, <1>2, FailFails DEF Check
<1>3. CASE CheckKeys(c)
  BY <1>2, <1>3, PlainWork DEF CheckKeys, WorkSteps, AESStep, TagStep
<1>4. CASE CheckLengths(c)
  <2>1. /\ LengthsOK(call[c]) /\ AtStep(c, "CheckLengths", "none") /\ Proceed(c)
        /\ UNCHANGED <<call, work, outcome>>
    BY <1>2, <1>4 DEF CheckLengths
  <2>2. \A m : m # <<"CheckLengths", "none">> => (Taken(c, m)' <=> Taken(c, m))
    BY <2>1, PositionAfter
  <2>3. CryptOK(c) /\ NewKeyOK(c)
    BY <2>1 DEF WorkOK, Failing
  <2>4. CryptOK(c)'
    BY <2>1, <2>2, <2>3 DEF CryptOK, CallCiphertext, AESStep, TagStep
  <2>5. NewKeyOK(c)'
    BY <2>1, <2>2, <2>3 DEF NewKeyOK, KeyOK
  <2> QED BY <2>4, <2>5 DEF WorkOK
<1>5. CASE CheckTag(c)
  <2>1. /\ work[c].tag = call[c].tag /\ AtStep(c, "CheckTag", "none") /\ Proceed(c)
        /\ UNCHANGED <<call, work, outcome>>
    BY <1>2, <1>5 DEF CheckTag
  <2>2. \A m : m # <<"CheckTag", "none">> => (Taken(c, m)' <=> Taken(c, m))
    BY <2>1, PositionAfter
  <2>3. CryptOK(c) /\ NewKeyOK(c)
    BY <2>1 DEF WorkOK, Failing
  <2>4. CryptOK(c)'
    BY <2>1, <2>2, <2>3 DEF CryptOK, CallCiphertext, AESStep, TagStep
  <2>5. NewKeyOK(c)'
    BY <2>1, <2>2, <2>3 DEF NewKeyOK, KeyOK
  <2> QED BY <2>4, <2>5 DEF WorkOK
<1> QED BY <1>3, <1>4, <1>5

\* Data is encrypted with the instance's AES key.
LEMMA EncryptWork ==
  ASSUME HandleInv, NEW c \in Client, ContentOK(c), WorkOK(c), EncryptDecrypt2(c)
  PROVE  WorkOK(c)'
<1> SUFFICES ASSUME ~Failing(c)' PROVE CryptOK(c)' /\ NewKeyOK(c)'
  BY DEF WorkOK
<1>1. /\ AtStep(c, "EncryptDecrypt2", "aes") /\ Proceed(c) /\ c \in served
      /\ UNCHANGED <<call, outcome>> /\ ~Failing(c)
      /\ TypeOK /\ work[c] \in WorkType /\ work \in [Client -> WorkType]
  BY DEF EncryptDecrypt2, Executes, Served, Failing, HandleInv, IInv, TypeOK
<1>2. KeysThere(c) /\ CryptOK(c)
  BY <1>1 DEF ContentOK, WorkOK
<1>3. AESStep \in StepsOf(call[c]) /\ call[c].op \in {"Seal", "Open"}
  BY <1>1, StepOfOp DEF AESStep
<1>4. PICK k \in Loaded(c, "aes", "key") : work' = [work EXCEPT ![c].by = @ \union {k.key.id}]
  BY DEF EncryptDecrypt2
<1>5. k.key = call[c].aead.aes
  <2>1. Ahead(c, AESStep)
    BY <1>1, AtAhead DEF AESStep
  <2>2. Taken(c, <<"Load", "aes">>)
    <3>1. CASE call[c].op = "Seal"
      BY <1>1, <3>1, SealPosition, SealPlaces
    <3>2. CASE call[c].op = "Open"
      BY <1>1, <3>2, OpenPosition, OpenPlaces
    <3> QED BY <1>3, <3>1, <3>2
  <2> QED BY <1>2, <2>1, <2>2 DEF KeysThere, LastUse, KeyFile
<1>6. work'[c].by = work[c].by \union {call[c].aead.aes.id} /\ work'[c].tag = work[c].tag
  BY <1>1, <1>4, <1>5 DEF WorkType
<1>7. \A m : m # AESStep => (Taken(c, m)' <=> Taken(c, m))
  BY <1>1, PositionAfter DEF AESStep
<1>8. Taken(c, TagStep)' => call[c].op = "Open"
  <2>1. Taken(c, TagStep)' => Taken(c, TagStep)
    BY <1>7 DEF AESStep, TagStep
  <2>2. call[c].op = "Seal" => ~Taken(c, TagStep)
    BY <1>1, SealPosition, SealPlaces
  <2> QED BY <1>3, <2>1, <2>2
<1>9. CryptOK(c)'
  <2>1. /\ work'[c].by \subseteq {call'[c].aead.aes.id} /\ call'[c].aead.aes.id \in work'[c].by
        /\ AESStep \in StepsOf(call'[c])
    BY <1>1, <1>2, <1>3, <1>6 DEF CryptOK
  <2>2. Taken(c, <<"CheckLengths", "none">>)' => LengthsOK(call'[c])
    BY <1>1, <1>2, <1>3, <1>7 DEF CryptOK, AESStep
  <2>3. Taken(c, TagStep)' =>
          work'[c].tag = Tag(call'[c].aead.hmac, call'[c].nonce, call'[c].aad, CallCiphertext(c)')
    BY <1>1, <1>2, <1>3, <1>6, <1>7, <1>8 DEF CryptOK, CallCiphertext, AESStep, TagStep
  <2>4. Taken(c, <<"CheckTag", "none">>)' => work'[c].tag = call'[c].tag
    BY <1>1, <1>2, <1>3, <1>6, <1>7 DEF CryptOK, AESStep
  <2> QED BY <2>1, <2>2, <2>3, <2>4 DEF CryptOK
<1>10. NewKeyOK(c)'
  BY <1>1, <1>3 DEF NewKeyOK
<1> QED BY <1>9, <1>10

\* The tag is the HMAC of the call's input under the instance's HMAC key.
LEMMA TagWork ==
  ASSUME HandleInv, NEW c \in Client, ContentOK(c), WorkOK(c), SequenceComplete(c)
  PROVE  WorkOK(c)'
<1> SUFFICES ASSUME ~Failing(c)' PROVE CryptOK(c)' /\ NewKeyOK(c)'
  BY DEF WorkOK
<1>1. /\ AtStep(c, "SequenceComplete", "sequence") /\ Proceed(c) /\ c \in served
      /\ UNCHANGED <<call, outcome>> /\ ~Failing(c)
      /\ TypeOK /\ work[c] \in WorkType /\ work \in [Client -> WorkType]
  BY DEF SequenceComplete, Executes, Served, Failing, HandleInv, IInv, TypeOK
<1>2. SequenceThere(c) /\ CryptOK(c)
  BY <1>1 DEF ContentOK, WorkOK
<1>3. call[c].op \in {"Seal", "Open"}
  BY <1>1, StepOfOp
<1>4. PICK q \in Loaded(c, "sequence", "sequence") :
        work' = [work EXCEPT ![c].tag = Tag(q.key, call[c].nonce, call[c].aad, CallCiphertext(c))]
  BY DEF SequenceComplete
<1>5. q.key = call[c].aead.hmac
  <2>1. Ahead(c, TagStep)
    BY <1>1, AtAhead DEF TagStep
  <2>2. Taken(c, <<"HmacStart", "hmac">>)
    <3>1. CASE call[c].op = "Seal"
      BY <1>1, <3>1, SealPosition, SealPlaces
    <3>2. CASE call[c].op = "Open"
      BY <1>1, <3>2, OpenPosition, OpenPlaces
    <3> QED BY <1>3, <3>1, <3>2
  <2> QED BY <1>2, <2>1, <2>2 DEF SequenceThere
<1>6. /\ work'[c].tag = Tag(call[c].aead.hmac, call[c].nonce, call[c].aad, CallCiphertext(c))
      /\ work'[c].by = work[c].by
  BY <1>1, <1>4, <1>5 DEF WorkType
<1>7. CallCiphertext(c)' = CallCiphertext(c)
  BY <1>1, <1>6 DEF CallCiphertext
<1>8. \A m : m # TagStep => (Taken(c, m)' <=> Taken(c, m))
  BY <1>1, PositionAfter DEF TagStep
<1>9. ~Taken(c, <<"CheckTag", "none">>)
  <2>1. call[c].op = "Open" => ~Taken(c, <<"CheckTag", "none">>)
    BY <1>1, OpenPosition, OpenPlaces
  <2>2. call[c].op = "Seal" => ~Taken(c, <<"CheckTag", "none">>)
    BY WhoseSteps DEF Taken
  <2> QED BY <1>3, <2>1, <2>2
<1>10. CryptOK(c)'
  <2>1. /\ work'[c].by \subseteq {call'[c].aead.aes.id}
        /\ AESStep \notin StepsOf(call'[c]) => work'[c].by = {}
        /\ Taken(c, AESStep)' => call'[c].aead.aes.id \in work'[c].by
        /\ Taken(c, <<"CheckLengths", "none">>)' => LengthsOK(call'[c])
    BY <1>1, <1>2, <1>3, <1>6, <1>8 DEF CryptOK, AESStep, TagStep
  <2>2. work'[c].tag = Tag(call'[c].aead.hmac, call'[c].nonce, call'[c].aad, CallCiphertext(c)')
    BY <1>1, <1>6, <1>7
  <2>3. ~Taken(c, <<"CheckTag", "none">>)'
    BY <1>8, <1>9 DEF TagStep
  <2> QED BY <2>1, <2>2, <2>3 DEF CryptOK
<1>11. NewKeyOK(c)'
  BY <1>1, <1>3 DEF NewKeyOK
<1> QED BY <1>10, <1>11

\* The policy of new keys is that of the session they are to be used with.
LEMMA PolicyWork ==
  ASSUME HandleInv, NEW c \in Client, ContentOK(c), WorkOK(c), PolicyGetDigest(c)
  PROVE  WorkOK(c)'
<1> SUFFICES ASSUME ~Failing(c)' PROVE CryptOK(c)' /\ NewKeyOK(c)'
  BY DEF WorkOK
<1>1. /\ AtStep(c, "PolicyGetDigest", "trial") /\ Proceed(c) /\ c \in served
      /\ UNCHANGED <<call, outcome>> /\ ~Failing(c)
      /\ TypeOK /\ work[c] \in WorkType /\ work \in [Client -> WorkType]
  BY DEF PolicyGetDigest, Executes, Served, Failing, HandleInv, IInv, TypeOK
<1>2. TrialThere(c)
  BY <1>1 DEF ContentOK
<1>3. call[c].op = "NewKey"
  <2>1. <<"PolicyGetDigest", "trial">> \in StepsOf(call[c])
    BY <1>1, StepOfOp
  <2> QED BY <2>1, WhoseSteps
<1>4. PICK s \in OpenSession(c, "trial") : work' = [work EXCEPT ![c].policy = s.digest]
  BY DEF PolicyGetDigest
<1>5. /\ Taken(c, <<"StartAuthSession", "trial">>) /\ Ahead(c, <<"PolicyGetDigest", "trial">>)
      /\ Taken(c, <<"PolicyPCR", "trial">>) <=> call[c].session.kind \in {"pcr", "pcr_authvalue"}
      /\ Taken(c, <<"PolicyAuthValue", "trial">>) <=> call[c].session.kind \in {"authvalue", "pcr_authvalue"}
      /\ ~Taken(c, <<"Create", "aes">>) /\ ~Taken(c, <<"Create", "hmac">>)
  BY <1>1, <1>3, NewKeyPosition, NewKeyPlaces
<1>6. s.digest = PolicyOf(call[c].session)
  <2>1. s.digest = AssertedIn(c, "trial")
    BY <1>2, <1>5 DEF TrialThere
  <2> QED BY <1>5, <2>1 DEF AssertedIn, PolicyOf
<1>7. work'[c].policy = PolicyOf(call'[c].session)
  BY <1>1, <1>4, <1>6 DEF WorkType
<1>8. ~Taken(c, <<"Create", "aes">>)' /\ ~Taken(c, <<"Create", "hmac">>)'
  BY <1>1, <1>5, PositionAfter
<1>9. NewKeyOK(c)'
  BY <1>7, <1>8 DEF NewKeyOK
<1>10. CryptOK(c)'
  BY <1>1, <1>3 DEF CryptOK
<1> QED BY <1>9, <1>10

\* Both keys are created under that policy, as children of the same primary.
LEMMA CreateWork ==
  ASSUME HandleInv, NEW c \in Client, ContentOK(c), WorkOK(c), NEW v \in {"aes", "hmac"}, Create(c, v)
  PROVE  WorkOK(c)'
<1> SUFFICES ASSUME ~Failing(c)' PROVE CryptOK(c)' /\ NewKeyOK(c)'
  BY DEF WorkOK
<1>1. /\ AtStep(c, "Create", v) /\ Proceed(c) /\ c \in served
      /\ UNCHANGED <<call, outcome>> /\ ~Failing(c)
      /\ TypeOK /\ work[c] \in WorkType /\ work \in [Client -> WorkType]
  BY DEF Create, Executes, Served, Failing, HandleInv, IInv, TypeOK
<1>2. PrimaryThere(c) /\ NewKeyOK(c)
  BY <1>1 DEF ContentOK, WorkOK
<1>3. call[c].op = "NewKey"
  BY <1>1, StepOfOp
<1>4. PICK p \in Loaded(c, "primary", "primary") :
        work' = [work EXCEPT ![c][v] = [id |-> made + 1, kind |-> v, seed |-> p.key.seed,
                                        policy |-> work[c].policy, auth |-> call[c].keyPass]]
  BY DEF Create
<1>5. work[c].policy = PolicyOf(call[c].session)
  <2>1. Taken(c, <<"PolicyGetDigest", "trial">>)
    BY <1>1, <1>3, NewKeyPosition, NewKeyPlaces
  <2> QED BY <1>2, <1>3, <2>1 DEF NewKeyOK
<1>6. /\ work'[c].policy = work[c].policy /\ KeyOK(c, v)'
      /\ work'[c][v].seed = p.key.seed
      /\ \A u \in {"aes", "hmac"} \ {v} : work'[c][u] = work[c][u]
  BY <1>1, <1>4, <1>5 DEF WorkType, KeyOK
<1>7. \A m : m # <<"Create", v>> => (Taken(c, m)' <=> Taken(c, m))
  BY <1>1, PositionAfter
<1>8. \A u \in {"aes", "hmac"} : Taken(c, <<"Create", u>>)' => KeyOK(c, u)'
  <2> SUFFICES ASSUME NEW u \in {"aes", "hmac"} \ {v}, Taken(c, <<"Create", u>>)' PROVE KeyOK(c, u)'
    BY <1>6
  <2>1. KeyOK(c, u)
    BY <1>2, <1>3, <1>7 DEF NewKeyOK
  <2> QED BY <1>1, <1>6, <2>1 DEF KeyOK
<1>9. Taken(c, <<"Create", "hmac">>)' => work'[c].aes.seed = work'[c].hmac.seed
  <2>1. CASE v = "aes"
    <3>1. ~Taken(c, <<"Create", "hmac">>)
      BY <1>1, <1>3, <2>1, NewKeyPosition, NewKeyPlaces
    <3> QED BY <1>7, <2>1, <3>1
  <2>2. CASE v = "hmac"
    <3>1. Taken(c, <<"Create", "aes">>) /\ Ahead(c, <<"Create", "hmac">>)
      BY <1>1, <1>3, <2>2, NewKeyPosition, NewKeyPlaces, AtAhead
    <3>2. p.key.seed = work[c].aes.seed
      BY <1>2, <3>1 DEF PrimaryThere
    <3> QED BY <1>6, <2>2, <3>2
  <2> QED BY <2>1, <2>2
<1>10. NewKeyOK(c)'
  <2>1. work'[c].policy = PolicyOf(call'[c].session)
    BY <1>1, <1>5, <1>6
  <2> QED BY <1>8, <1>9, <2>1 DEF NewKeyOK
<1>11. CryptOK(c)'
  BY <1>1, <1>3 DEF CryptOK
<1> QED BY <1>10, <1>11

\* When a call starts none of its steps is taken.
LEMMA StartWork ==
  ASSUME TypeOK, NEW c \in Client, NEW a, NEW program, Start(c, a, program), Whole(a, program)
  PROVE  WorkOK(c)'
<1>1. call'[c] = a /\ todo'[c] = program /\ work'[c] = NoWork
  BY DEF Start, TypeOK
<1>2. \A m : ~Taken(c, m)'
  BY <1>1 DEF Taken, Ahead, Whole
<1>3. work'[c].by = {}
  BY <1>1 DEF NoWork
<1>4. CryptOK(c)'
  BY <1>2, <1>3 DEF CryptOK
<1>5. NewKeyOK(c)'
  BY <1>2 DEF NewKeyOK
<1> QED BY <1>4, <1>5 DEF WorkOK

\* Whatever step a call takes, its results are what its steps so far compute.
LEMMA OwnWork ==
  ASSUME HandleInv, NEW c \in Client, ContentOK(c), WorkOK(c), StepOf(c)
  PROVE  WorkOK(c)'
<1>1. TypeOK
  BY DEF HandleInv, IInv
<1>2. ASSUME NEW cmd, NEW v, AtStep(c, cmd, v), Proceed(c), UNCHANGED <<call, outcome, work>>,
             cmd \notin {"EncryptDecrypt2", "SequenceComplete", "CheckLengths", "CheckTag",
                         "PolicyGetDigest", "Create"}
      PROVE  WorkOK(c)'
  BY <1>2, PlainWork DEF WorkSteps, AESStep, TagStep
<1>3. CASE Calls(c)
  BY <1>1, <1>3, CallStarts, StartWork
<1>4. CASE LocalStep(c)
  <2>1. CASE Dial(c)
    BY <1>2, <2>1 DEF Dial
  <2>2. CASE Defer(c)
    BY <1>2, <2>2 DEF Defer
  <2> QED BY <1>4, <2>1, <2>2, CheckWork DEF LocalStep
<1>5. CASE SessionCommand(c)
  <2>1. ASSUME NEW v \in SessionVariable, StartAuthSession(c, v) PROVE WorkOK(c)'
    BY <1>2, <2>1 DEF StartAuthSession, Executes
  <2>2. ASSUME NEW v \in SessionVariable, PolicyPCR(c, v) PROVE WorkOK(c)'
    BY <1>2, <2>2 DEF PolicyPCR, Executes
  <2>3. ASSUME NEW v \in SessionVariable, PolicyAuthValue(c, v) PROVE WorkOK(c)'
    BY <1>2, <2>3 DEF PolicyAuthValue, Executes
  <2> QED BY <1>5, <2>1, <2>2, <2>3, PolicyWork DEF SessionCommand
<1>6. CASE KeyCommand(c)
  <2>1. CASE CreatePrimary(c)
    BY <1>2, <2>1 DEF CreatePrimary, Executes
  <2>2. ASSUME NEW v \in {"aes", "hmac"}, Load(c, v) PROVE WorkOK(c)'
    BY <1>2, <2>2 DEF Load, Executes
  <2>3. CASE ReadPublic(c) \/ HmacStart(c) \/ SequenceUpdate(c)
    BY <1>2, <2>3 DEF ReadPublic, HmacStart, SequenceUpdate, Executes
  <2> QED BY <1>6, <2>1, <2>2, <2>3, CreateWork, EncryptWork, TagWork DEF KeyCommand
<1>7. CASE CommandRefused(c) \/ CommandLost(c) \/ CommandFault(c)
  BY <1>1, <1>7, CommandFailing DEF WorkOK
<1>8. CASE FlushContext(c)
  BY <1>2, <1>8 DEF FlushContext
<1>9. CASE DeferredFlush(c) \/ DeferredClose(c) \/ Accept(c) \/ ConnectionLost(c)
  <2>1. UNCHANGED <<call, todo, work>> /\ outcome'[c].why = outcome[c].why
    BY <1>1, <1>9, CutOutcome DEF DeferredFlush, DeferredClose, Accept, ConnectionLost, callVars
  <2>2. \A m : Taken(c, m)' <=> Taken(c, m)
    BY <2>1 DEF Taken, Ahead
  <2> QED BY <2>1, <2>2, WorkKept DEF Failing
<1>10. CASE Returns(c)
  <2> PICK op, status : Ends(c, op, status)
    BY <1>10 DEF Returns, ReturnError, ReturnKeys, ReturnAEAD, ReturnSealed, ReturnOpened
  <2>1. UNCHANGED <<call, todo, work>> /\ outcome'[c].why = outcome[c].why
    BY <1>1 DEF Ends, TypeOK, OutcomeType
  <2>2. \A m : Taken(c, m)' <=> Taken(c, m)
    BY <2>1 DEF Taken, Ahead
  <2> QED BY <2>1, <2>2, WorkKept DEF Failing
<1>11. CASE Crash(c)
  <2> DEFINE o == [outcome[c] EXCEPT !.status = "failed", !.why = "crash", !.at = "none",
                             !.cut = TRUE]
  <2>1. outcome' = [outcome EXCEPT ![c] = o] /\ outcome \in [Client -> OutcomeType]
    BY <1>1, <1>11 DEF Crash, TypeOK
  <2>2. o.why = "crash"
    BY <2>1 DEF OutcomeType
  <2> HIDE DEF o
  <2>3. Failing(c)'
    BY <2>1, <2>2 DEF Failing
  <2> QED BY <2>3 DEF WorkOK
<1> QED BY <1>3, <1>4, <1>5, <1>6, <1>7, <1>8, <1>9, <1>10, <1>11 DEF StepOf, Advance

-----------------------------------------------------------------------------
(* How a call is answered. *)

\* A step that neither starts nor answers a call shows in its work only.
LEMMA Unanswered ==
  ASSUME TypeOK, NEW c \in Client, StepOf(c), ~Calls(c), ~Returns(c), ~Crash(c)
  PROVE  /\ call' = call /\ outcome'[c].status = outcome[c].status
         /\ Idle(c) => work' = work /\ outcome'[c].why = outcome[c].why
<1> DEFINE Silent == /\ call' = call /\ outcome'[c].status = outcome[c].status
                     /\ Idle(c) => work' = work /\ outcome'[c].why = outcome[c].why
<1>1. ASSUME NEW why, why # "none", Running(c), Fail(c, why) PROVE Silent
  BY <1>1, FailFails DEF Fail, Running
<1>2. ASSUME NEW cmd, NEW v, Executes(c, cmd, v) PROVE Silent
  BY <1>2 DEF Executes, AtStep, Running
<1>3. CASE LocalStep(c)
  <2>1. CASE CheckLengths(c) \/ CheckKeys(c) \/ CheckTag(c)
    <3>1. ASSUME NEW cmd, NEW ok, NEW why, why # "none", Check(c, cmd, ok, why) PROVE Silent
      BY <1>1, <3>1 DEF Check, AtStep
    <3>2. CASE CheckLengths(c)
      BY <3>1, <3>2, Zenon DEF CheckLengths
    <3>3. CASE CheckKeys(c)
      BY <3>1, <3>3, Zenon DEF CheckKeys
    <3>4. CASE CheckTag(c)
      BY <3>1, <3>4, Zenon DEF CheckTag
    <3> QED BY <2>1, <3>2, <3>3, <3>4
  <2>2. CASE Dial(c) \/ Defer(c)
    BY <2>2 DEF Dial, Defer
  <2> QED BY <1>3, <2>1, <2>2 DEF LocalStep
<1>4. CASE SessionCommand(c) \/ KeyCommand(c)
  <2>1. \E cmd, v : Executes(c, cmd, v)
    BY <1>4 DEF SessionCommand, KeyCommand, PolicyGetDigest, StartAuthSession, PolicyPCR, PolicyAuthValue,
       CreatePrimary, Create, Load, EncryptDecrypt2, ReadPublic, HmacStart, SequenceUpdate, SequenceComplete
  <2> QED BY <1>2, <2>1
<1>5. CASE CommandRefused(c) \/ CommandLost(c) \/ CommandFault(c)
  <2>1. PICK why : why # "none" /\ Running(c) /\ Fail(c, why)
    BY <1>5 DEF CommandRefused, CommandLost, CommandFault, Reason
  <2> QED BY <1>1, <2>1
<1>6. CASE FlushContext(c) \/ DeferredFlush(c) \/ DeferredClose(c)
  BY <1>6 DEF FlushContext, DeferredFlush, DeferredClose
<1>7. CASE Accept(c) \/ ConnectionLost(c)
  BY <1>7, CutOutcome DEF Accept, ConnectionLost, callVars
<1> QED BY <1>3, <1>4, <1>5, <1>6, <1>7 DEF StepOf, Advance

\* An answer ends the call, well unless something failed.
LEMMA Answered ==
  ASSUME TypeOK, NEW c \in Client, NEW op, NEW status, Ends(c, op, status)
  PROVE  /\ Running(c) /\ call[c].op = op /\ (Failing(c) <=> status = "failed")
         /\ outcome'[c].status = status /\ (Failing(c)' <=> Failing(c))
         /\ \A m \in StepsOf(call[c]) : Taken(c, m)
         /\ UNCHANGED <<call, todo, work, made>>
<1>1. /\ outcome'[c].status = status /\ outcome'[c].why = outcome[c].why
  BY DEF Ends, TypeOK, OutcomeType
<1>2. todo[c] = <<>>
  BY DEF Ends, Unwinding
<1>3. \A m \in StepsOf(call[c]) : Taken(c, m)
  BY <1>2 DEF Taken, Ahead
<1> QED BY <1>1, <1>3 DEF Ends, Unwinding, Failing, Running

\* A call that crashes has failed.
LEMMA CrashAnswer ==
  ASSUME TypeOK, NEW c \in Client, Crash(c)
  PROVE  Running(c) /\ outcome'[c].status = "failed" /\ Failing(c)' /\ call' = call
<1> DEFINE o == [outcome[c] EXCEPT !.status = "failed", !.why = "crash", !.at = "none",
                             !.cut = TRUE]
<1>1. outcome' = [outcome EXCEPT ![c] = o] /\ outcome \in [Client -> OutcomeType]
  BY DEF Crash, TypeOK
<1>2. o.why = "crash" /\ o.status = "failed"
  BY <1>1 DEF OutcomeType
<1> HIDE DEF o
<1> QED BY <1>1, <1>2 DEF Failing, Crash

\* What a call was given stays as it was when it started, and only a call that
\* did not fail is answered well.
LEMMA OwnAnswer ==
  ASSUME TypeOK, NEW c \in Client, ArgumentsOK(c), OutcomeOK(c), StepOf(c)
  PROVE  ArgumentsOK(c)' /\ OutcomeOK(c)'
<1>1. /\ aeads \subseteq aeads' /\ sealed \subseteq sealed'
      /\ KeysOf(pairs) \subseteq KeysOf(pairs')
  BY ResultsStay DEF KeysOf
<1>2. ASSUME call' = call PROVE ArgumentsOK(c)'
  BY <1>1, <1>2 DEF ArgumentsOK
<1>3. CASE Calls(c)
  <2> PICK a, program : Start(c, a, program) /\ Fresh(a)
    BY <1>3, CallStarts
  <2>1. call'[c] = a /\ outcome'[c].status = "pending"
    BY DEF Start, TypeOK
  <2> QED BY <1>1, <2>1 DEF Fresh, ArgumentsOK, OutcomeOK
<1>4. CASE Returns(c)
  <2> PICK op, status : Ends(c, op, status)
    BY <1>4 DEF Returns, ReturnError, ReturnKeys, ReturnAEAD, ReturnSealed, ReturnOpened
  <2> QED BY <1>2, Answered DEF OutcomeOK
<1>5. CASE Crash(c)
  BY <1>2, <1>5, CrashAnswer DEF OutcomeOK
<1>6. CASE ~Calls(c) /\ ~Returns(c) /\ ~Crash(c)
  <2>1. /\ call' = call /\ outcome'[c].status = outcome[c].status
        /\ Idle(c) => outcome'[c].why = outcome[c].why
    BY <1>6, Unanswered
  <2> QED BY <1>2, <2>1 DEF OutcomeOK, Failing, Idle
<1> QED BY <1>3, <1>4, <1>5, <1>6

-----------------------------------------------------------------------------
(* Identities of keys. *)

Roles == {"aes", "hmac"}

\* The keys in files and instances.
Filed == KeysOf(pairs \union aeads)

\* The zero Key is no key, and a fresh call's variables hold it.
LEMMA NilKeyIsNone ==
  /\ NilKey.id = 0 /\ NilKey \notin Key
  /\ NoWork.aes = NilKey /\ NoWork.hmac = NilKey
<1>1. ASSUME NilKey \in Key PROVE FALSE
  <2>1. DOMAIN NilKey = {"id"}
    BY DEF NilKey
  <2>2. DOMAIN NilKey = {"id", "kind", "seed", "policy", "auth"}
    BY <1>1 DEF Key
  <2> QED BY <2>1, <2>2
<1> QED BY <1>1 DEF NilKey, NoWork

\* Calls that start have no key yet, others keep theirs, none is filed.
LEMMA IdsKept ==
  ASSUME IdsOK, made' = made, Filed' \subseteq Filed,
         \A d \in Client :
           \/ \A v \in Roles : work'[d][v] = NilKey
           \/ (\A v \in Roles : work'[d][v] = work[d][v]) /\ (Running(d)' => Running(d))
  PROVE  IdsOK'
<1>1. \A k, l \in Filed' : k.id \in 1..made' /\ (k.id = l.id => k = l)
  BY DEF IdsOK, Filed
<1>2. \A d \in Client, v \in Roles : work'[d][v] = NilKey \/ work'[d][v] = work[d][v]
  OBVIOUS
<1>3. ASSUME NEW c \in Client, NEW d \in Client, NEW v \in Roles, NEW w \in Roles, work'[c][v] # NilKey
      PROVE  work'[c][v].id \in 1..made' /\ (work'[c][v].id = work'[d][w].id => c = d /\ v = w)
  <2>1. work'[c][v] = work[c][v] /\ work[c][v].id \in 1..made
    BY <1>2, <1>3 DEF IdsOK, Roles
  <2>2. CASE work'[d][w] = NilKey
    <3>1. work'[d][w].id = 0 /\ work'[c][v].id # 0
      BY <2>1, <2>2, NilKeyIsNone
    <3> QED BY <2>1, <3>1
  <2>3. CASE work'[d][w] = work[d][w]
    BY <1>3, <2>1, <2>3 DEF IdsOK, Roles
  <2> QED BY <1>2, <2>2, <2>3
<1>4. ASSUME NEW d \in Client, NEW v \in Roles, Running(d)', NEW k \in Filed' PROVE k.id # work'[d][v].id
  <2>1. CASE work'[d][v] = NilKey
    <3>1. work'[d][v].id = 0 /\ k.id \in 1..made'
      BY <1>1, <2>1, NilKeyIsNone
    <3> QED BY <3>1
  <2>2. CASE work'[d][v] = work[d][v] /\ Running(d)
    <3>1. \A l \in Filed : l.id # work[d][v].id
      BY <2>2 DEF IdsOK, Roles, Filed
    <3> QED BY <1>4, <2>2, <3>1
  <2> QED BY <1>4, <2>1, <2>2
<1> QED BY <1>1, <1>3, <1>4 DEF IdsOK, Roles, Filed

\* A new key is numbered apart from all others.
LEMMA IdsCreated ==
  ASSUME TypeOK, IdsOK, NEW c \in Client, NEW v \in Roles, Create(c, v)
  PROVE  IdsOK'
<1>1. /\ made \in Nat /\ work \in [Client -> WorkType] /\ made' = made + 1
      /\ UNCHANGED <<pairs, aeads, outcome>>
  BY DEF TypeOK, Create, Executes
<1>2. PICK key : key.id = made + 1 /\ work' = [work EXCEPT ![c][v] = key]
  <2>1. PICK p : work' = [work EXCEPT ![c][v] =
                            [id |-> made + 1, kind |-> v, seed |-> p.key.seed,
                             policy |-> work[c].policy, auth |-> call[c].keyPass]]
    BY DEF Create
  <2> DEFINE new == [id |-> made + 1, kind |-> v, seed |-> p.key.seed,
                     policy |-> work[c].policy, auth |-> call[c].keyPass]
  <2>2. new.id = made + 1 /\ work' = [work EXCEPT ![c][v] = new]
    BY <2>1
  <2> HIDE DEF new
  <2> QED BY <2>2
<1>3. /\ work'[c][v] = key
      /\ \A d \in Client, w \in Roles : d # c \/ w # v => work'[d][w] = work[d][w]
  BY <1>1, <1>2 DEF WorkType, Roles
<1>4. \A k, l \in Filed : k.id \in 1..made /\ (k.id = l.id => k = l)
  BY DEF IdsOK, Filed
<1>5. \A d \in Client, w \in Roles : d # c \/ w # v => work'[d][w].id \in 0..made
  <2> SUFFICES ASSUME NEW d \in Client, NEW w \in Roles PROVE work[d][w].id \in 0..made
    BY <1>3
  <2>1. work[d][w] # NilKey => work[d][w].id \in 1..made
    BY DEF IdsOK, Roles
  <2>2. work[d][w] = NilKey => work[d][w].id = 0
    BY NilKeyIsNone
  <2> QED BY <1>1, <2>1, <2>2
<1>6. \A k, l \in Filed' : k.id \in 1..made' /\ (k.id = l.id => k = l)
  <2>1. Filed' = Filed
    BY <1>1 DEF Filed
  <2>2. \A i \in 1..made : i \in 1..made'
    BY <1>1
  <2> QED BY <1>4, <2>1, <2>2
<1>7. ASSUME NEW a \in Client, NEW d \in Client, NEW u \in Roles, NEW w \in Roles, work'[a][u] # NilKey
      PROVE  work'[a][u].id \in 1..made' /\ (work'[a][u].id = work'[d][w].id => a = d /\ u = w)
  <2>1. CASE a = c /\ u = v
    <3>1. work'[a][u].id = made + 1
      BY <1>2, <1>3, <2>1
    <3>2. d # c \/ w # v => work'[d][w].id # made + 1
      BY <1>1, <1>5
    <3> QED BY <1>1, <2>1, <3>1, <3>2
  <2>2. CASE a # c \/ u # v
    <3>1. work'[a][u] = work[a][u] /\ work[a][u].id \in 1..made
      BY <1>3, <1>7, <2>2 DEF IdsOK, Roles
    <3>2. CASE d = c /\ w = v
      <4>1. work'[d][w].id = made + 1
        BY <1>2, <1>3, <3>2
      <4> QED BY <1>1, <3>1, <4>1
    <3>3. CASE d # c \/ w # v
      <4>1. work'[d][w] = work[d][w]
        BY <1>3, <3>3
      <4> QED BY <1>1, <1>7, <3>1, <4>1 DEF IdsOK, Roles
    <3> QED BY <3>2, <3>3
  <2> QED BY <2>1, <2>2
<1>8. ASSUME NEW d \in Client, NEW w \in Roles, Running(d)', NEW k \in Filed' PROVE k.id # work'[d][w].id
  <2>1. k \in Filed /\ k.id \in 1..made /\ Running(d)
    BY <1>1, <1>4, <1>8 DEF Filed, Running, Idle
  <2>2. CASE d = c /\ w = v
    <3>1. work'[d][w].id = made + 1
      BY <1>2, <1>3, <2>2
    <3> QED BY <1>1, <2>1, <3>1
  <2>3. CASE d # c \/ w # v
    <3>1. work'[d][w] = work[d][w]
      BY <1>3, <2>3
    <3> QED BY <2>1, <3>1 DEF IdsOK, Roles, Filed
  <2> QED BY <2>2, <2>3
<1> QED BY <1>6, <1>7, <1>8 DEF IdsOK, Roles, Filed

\* Only Create makes keys.
LEMMA KeysMade ==
  ASSUME TypeOK, NEW c \in Client, StepOf(c), ~Calls(c), \A v \in Roles : ~Create(c, v)
  PROVE  made' = made /\ \A v \in Roles : work'[c][v] = work[c][v]
<1> DEFINE Same == made' = made /\ \A v \in Roles : work'[c][v] = work[c][v]
<1>1. work \in [Client -> WorkType] /\ work[c] \in WorkType
  BY DEF TypeOK
<1>2. ASSUME made' = made, work' = work PROVE Same
  BY <1>2
<1>3. ASSUME NEW why, Fail(c, why) PROVE Same
  BY <1>3 DEF Fail, dataVars
<1>4. CASE LocalStep(c)
  <2>1. ASSUME NEW cmd, NEW ok, NEW why, Check(c, cmd, ok, why) PROVE Same
    BY <1>3, <2>1 DEF Check, dataVars
  <2>2. CASE Dial(c) \/ Defer(c)
    BY <2>2 DEF Dial, Defer, dataVars
  <2>3. CASE CheckLengths(c) \/ CheckKeys(c) \/ CheckTag(c)
    BY <2>1, <2>3, Zenon DEF CheckLengths, CheckKeys, CheckTag
  <2> QED BY <1>4, <2>2, <2>3 DEF LocalStep
<1>5. CASE SessionCommand(c)
  <2>1. CASE PolicyGetDigest(c)
    <3>1. PICK s : work' = [work EXCEPT ![c].policy = s.digest]
      BY <2>1 DEF PolicyGetDigest
    <3>2. made' = made
      BY <2>1 DEF PolicyGetDigest
    <3> QED BY <1>1, <3>1, <3>2 DEF WorkType, Roles
  <2>2. ASSUME NEW v \in SessionVariable, StartAuthSession(c, v) \/ PolicyPCR(c, v) \/ PolicyAuthValue(c, v)
        PROVE  Same
    BY <2>2 DEF StartAuthSession, PolicyPCR, PolicyAuthValue
  <2> QED BY <1>5, <2>1, <2>2 DEF SessionCommand
<1>6. CASE KeyCommand(c)
  <2>1. CASE EncryptDecrypt2(c)
    <3>1. PICK k : work' = [work EXCEPT ![c].by = @ \union {k.key.id}]
      BY <2>1 DEF EncryptDecrypt2
    <3>2. made' = made
      BY <2>1 DEF EncryptDecrypt2
    <3> QED BY <1>1, <3>1, <3>2 DEF WorkType, Roles
  <2>2. CASE SequenceComplete(c)
    <3>1. PICK q : work' = [work EXCEPT ![c].tag =
                              Tag(q.key, call[c].nonce, call[c].aad, CallCiphertext(c))]
      BY <2>2 DEF SequenceComplete
    <3>2. made' = made
      BY <2>2 DEF SequenceComplete
    <3> QED BY <1>1, <3>1, <3>2 DEF WorkType, Roles
  <2>3. CASE CreatePrimary(c) \/ ReadPublic(c) \/ HmacStart(c) \/ SequenceUpdate(c)
    BY <2>3 DEF CreatePrimary, ReadPublic, HmacStart, SequenceUpdate
  <2>4. CASE \E v \in {"aes", "hmac"} : Load(c, v)
    BY <2>4 DEF Load
  <2> QED BY <1>6, <2>1, <2>2, <2>3, <2>4 DEF KeyCommand, Roles
<1>7. CASE CommandRefused(c) \/ CommandLost(c) \/ CommandFault(c)
  BY <1>3, <1>7 DEF CommandRefused, CommandLost, CommandFault
<1>8. CASE FlushContext(c) \/ DeferredFlush(c) \/ DeferredClose(c)
  BY <1>8 DEF FlushContext, DeferredFlush, DeferredClose, dataVars
<1>9. CASE Returns(c)
  BY <1>9 DEF Returns, ReturnError, ReturnKeys, ReturnAEAD, ReturnSealed, ReturnOpened, Ends
<1>10. CASE Accept(c) \/ ConnectionLost(c) \/ Crash(c)
  BY <1>10 DEF Accept, ConnectionLost, Crash, callVars, dataVars
<1> QED BY <1>4, <1>5, <1>6, <1>7, <1>8, <1>9, <1>10 DEF StepOf, Advance

\* The keys a call of NewKey returns are those it was asked for.
LEMMA KeysReturned ==
  ASSUME HandleInv, IdsOK, NEW c \in Client, WorkOK(c), ReturnKeys(c)
  PROVE  /\ Running(c) /\ call[c].op = "NewKey"
         /\ work[c].aes # NilKey /\ work[c].hmac # NilKey
         /\ work[c].aes.id # work[c].hmac.id /\ work[c].aes.seed = work[c].hmac.seed
         /\ KeyOK(c, "aes") /\ KeyOK(c, "hmac")
         /\ \A v \in Roles : work[c][v].id \in 1..made /\ \A k \in Filed : k.id # work[c][v].id
<1>1. /\ TypeOK /\ Running(c) /\ call[c].op = "NewKey" /\ ~Failing(c)
      /\ \A m \in StepsOf(call[c]) : Taken(c, m)
      /\ ResultOK(c) /\ todo[c] = <<>>
  <2>1. TypeOK /\ ResultOK(c) /\ Ends(c, "NewKey", "ok")
    BY DEF ReturnKeys, HandleInv, IInv
  <2>2. Running(c) /\ call[c].op = "NewKey" /\ ~Failing(c) /\ \A m \in StepsOf(call[c]) : Taken(c, m)
    BY <2>1, Answered
  <2> QED BY <2>1, <2>2 DEF Ends, Unwinding
<1>2. /\ Taken(c, <<"Create", "aes">>) /\ Taken(c, <<"Create", "hmac">>)
  BY <1>1, HasSteps
<1>3. work[c].aes.seed = work[c].hmac.seed /\ KeyOK(c, "aes") /\ KeyOK(c, "hmac")
  BY <1>1, <1>2 DEF WorkOK, NewKeyOK
<1>4. work[c].aes # NilKey /\ work[c].hmac # NilKey
  <2>1. work[c].aes \in Key /\ work[c].hmac \in Key
    BY <1>1 DEF ResultOK, Ahead
  <2> QED BY <2>1, NilKeyIsNone
<1>5. work[c].aes.id # work[c].hmac.id
  BY <1>4 DEF IdsOK
<1>6. \A v \in Roles : work[c][v].id \in 1..made /\ \A k \in Filed : k.id # work[c][v].id
  BY <1>1, <1>4 DEF IdsOK, Roles, Filed
<1> QED BY <1>1, <1>3, <1>4, <1>5, <1>6

\* ... and they are numbered apart from all others.
LEMMA IdsReturned ==
  ASSUME HandleInv, IdsOK, NEW c \in Client, WorkOK(c), ReturnKeys(c)
  PROVE  IdsOK'
<1>1. /\ work[c].aes # NilKey /\ work[c].hmac # NilKey
      /\ work[c].aes.id # work[c].hmac.id
      /\ \A v \in Roles : work[c][v].id \in 1..made /\ \A k \in Filed : k.id # work[c][v].id
  BY KeysReturned
<1>2. /\ UNCHANGED <<work, made, aeads>> /\ ~Running(c)'
      /\ \A d \in Client \ {c} : Running(d)' => Running(d)
      /\ pairs' = pairs \union {[aes |-> work[c].aes, hmac |-> work[c].hmac]}
  BY DEF ReturnKeys, Ends, HandleInv, IInv, TypeOK, OutcomeType, Running, Idle
<1>3. Filed' \subseteq Filed \union {work[c].aes, work[c].hmac}
  BY <1>2 DEF Filed, KeysOf
<1>4. \A k, l \in Filed : k.id \in 1..made /\ (k.id = l.id => k = l)
  BY DEF IdsOK, Filed
<1>5. \A k, l \in Filed' : k.id \in 1..made' /\ (k.id = l.id => k = l)
  BY <1>1, <1>2, <1>3, <1>4 DEF Roles
<1>6. ASSUME NEW d \in Client, NEW w \in Roles, Running(d)', NEW k \in Filed' PROVE k.id # work'[d][w].id
  <2>1. d # c /\ Running(d) /\ work'[d][w] = work[d][w]
    BY <1>2, <1>6
  <2>2. \A l \in Filed : l.id # work[d][w].id
    BY <2>1 DEF IdsOK, Roles, Filed
  <2>3. \A v \in Roles : work[c][v].id # work[d][w].id
    BY <1>1, <2>1 DEF IdsOK, Roles
  <2> QED BY <1>3, <1>6, <2>1, <2>2, <2>3 DEF Roles
<1>7. \A a, d \in Client, u, w \in Roles : work'[a][u] # NilKey =>
        work'[a][u].id \in 1..made' /\ (work'[a][u].id = work'[d][w].id => a = d /\ u = w)
  BY <1>2 DEF IdsOK, Roles
<1> QED BY <1>5, <1>6, <1>7 DEF IdsOK, Roles, Filed

\* The message a call of Seal returns is encrypted with the one key of its
\* instance and authenticated with the other.
LEMMA MessageSealed ==
  ASSUME HandleInv, NEW c \in Client, WorkOK(c), ReturnSealed(c)
  PROVE  /\ Running(c) /\ call[c].op = "Seal" /\ LengthsOK(call[c])
         /\ CallCiphertext(c) =
              [by |-> IF call[c].pt.len = 0 THEN {} ELSE {call[c].aead.aes.id},
               nonce |-> call[c].nonce, pt |-> call[c].pt]
         /\ work[c].tag = [key |-> call[c].aead.hmac.id, nonce |-> call[c].nonce,
                           aad |-> call[c].aad, ct |-> CallCiphertext(c)]
<1>1. /\ TypeOK /\ Running(c) /\ call[c].op = "Seal" /\ ~Failing(c)
      /\ \A m \in StepsOf(call[c]) : Taken(c, m)
  BY Answered DEF ReturnSealed, HandleInv, IInv
<1>2. CryptOK(c) /\ LengthsOK(call[c])
  <2>1. Taken(c, <<"CheckLengths", "none">>)
    BY <1>1, HasSteps
  <2> QED BY <1>1, <2>1 DEF WorkOK, CryptOK
<1>3. AESStep \in StepsOf(call[c]) <=> call[c].pt.len # 0
  BY <1>1 DEF StepsOf, SealSteps, CryptSteps, SessionSteps, AESStep
<1>4. work[c].by = IF call[c].pt.len = 0 THEN {} ELSE {call[c].aead.aes.id}
  BY <1>1, <1>2, <1>3 DEF CryptOK
<1>5. work[c].tag = Tag(call[c].aead.hmac, call[c].nonce, call[c].aad, CallCiphertext(c))
  <2>1. Taken(c, TagStep)
    BY <1>1, HasSteps
  <2> QED BY <1>1, <1>2, <2>1 DEF CryptOK
<1> QED BY <1>1, <1>2, <1>4, <1>5 DEF CallCiphertext, Ciphertext, Tag

\* An instance is made of two keys that NewKey returned.
LEMMA InstanceMade ==
  ASSUME HandleInv, NEW c \in Client, ArgumentsOK(c), ReturnAEAD(c)
  PROVE  /\ Running(c) /\ call[c].op = "NewAESCTRHMAC" /\ KeysOK(call[c])
         /\ {call[c].aes, call[c].hmac} \subseteq KeysOf(pairs)
<1>1. TypeOK /\ ResultOK(c) /\ Ends(c, "NewAESCTRHMAC", "ok")
  BY DEF ReturnAEAD, HandleInv, IInv
<1>2. Running(c) /\ call[c].op = "NewAESCTRHMAC" /\ ~Failing(c) /\ todo[c] = <<>>
  BY <1>1, Answered DEF Ends, Unwinding
<1>3. KeysOK(call[c])
  BY <1>1, <1>2 DEF ResultOK, Ahead
<1> QED BY <1>2, <1>3 DEF ArgumentsOK, KeysOK

\* Whatever step a client takes, key identities stay unique.
LEMMA IdsStep ==
  ASSUME HandleInv, IdsOK, NEW c \in Client, WorkOK(c), ArgumentsOK(c), StepOf(c)
  PROVE  IdsOK'
<1>1. TypeOK
  BY DEF HandleInv, IInv
<1>2. \A d \in Client \ {c} : /\ \A v \in Roles : work'[d][v] = work[d][v]
                              /\ Running(d)' => Running(d)
  BY <1>1, OthersApart DEF Running, Idle
<1>3. ASSUME UNCHANGED <<pairs, aeads>> PROVE Filed' \subseteq Filed
  BY <1>3 DEF Filed
<1>4. CASE Calls(c)
  <2> PICK a, program : Start(c, a, program)
    BY <1>1, <1>4, CallStarts
  <2>1. work'[c] = NoWork /\ made' = made /\ UNCHANGED <<pairs, aeads>>
    BY <1>1 DEF Start, TypeOK, dataVars
  <2>2. \A v \in Roles : work'[c][v] = NilKey
    BY <2>1, NilKeyIsNone DEF Roles
  <2> QED BY <1>2, <1>3, <2>1, <2>2, IdsKept
<1>5. CASE \E v \in Roles : Create(c, v)
  BY <1>1, <1>5, IdsCreated
<1>6. CASE ~Calls(c) /\ \A v \in Roles : ~Create(c, v)
  <2>1. made' = made /\ \A v \in Roles : work'[c][v] = work[c][v]
    BY <1>1, <1>6, KeysMade
  <2>2. CASE Returns(c)
    <3>1. CASE ReturnKeys(c)
      BY <3>1, IdsReturned
    <3>2. ASSUME Filed' \subseteq Filed, NEW op, NEW status, Ends(c, op, status) PROVE IdsOK'
      <4>1. Running(c)
        BY <1>1, <3>2, Answered
      <4> QED BY <1>2, <2>1, <3>2, <4>1, IdsKept
    <3>3. CASE ReturnAEAD(c)
      <4> DEFINE a == [aes |-> call[c].aes, hmac |-> call[c].hmac,
                       parentPass |-> call[c].parentPass, session |-> call[c].session]
      <4>1. a.aes \in KeysOf(pairs) /\ a.hmac \in KeysOf(pairs)
        BY <3>3, InstanceMade
      <4>2. aeads' = aeads \union {a} /\ pairs' = pairs
        BY <3>3 DEF ReturnAEAD
      <4> HIDE DEF a
      <4>3. Filed' \subseteq Filed
        BY <4>1, <4>2 DEF Filed, KeysOf
      <4> QED BY <3>2, <3>3, <4>3 DEF ReturnAEAD
    <3>4. CASE ReturnError(c) \/ ReturnSealed(c) \/ ReturnOpened(c)
      BY <1>3, <3>2, <3>4 DEF ReturnError, ReturnSealed, ReturnOpened
    <3> QED BY <2>2, <3>1, <3>3, <3>4 DEF Returns
  <2>3. CASE ~Returns(c)
    <3>1. Filed' \subseteq Filed
      BY <1>3, <2>3, ResultsStay
    <3>2. Running(c)' => Running(c)
      BY <1>1, <1>6, <2>3, Unanswered, CrashAnswer DEF Running, Idle
    <3> QED BY <1>2, <2>1, <3>1, <3>2, IdsKept
  <2> QED BY <2>2, <2>3
<1> QED BY <1>4, <1>5, <1>6

\* ... and what calls return is what they should.
LEMMA HistoryStep ==
  ASSUME HandleInv, HistoryOK, NEW c \in Client, WorkOK(c), ArgumentsOK(c), StepOf(c)
  PROVE  HistoryOK'
<1>1. TypeOK /\ IdsOK'
  BY IdsStep DEF HistoryOK, HandleInv, IInv
<1>2. PairsConsistent'
  <2>1. CASE ReturnKeys(c)
    <3> DEFINE p == [aes |-> work[c].aes, hmac |-> work[c].hmac]
    <3>1. Consistent(p)
      BY <2>1, KeysReturned DEF HistoryOK, Consistent, KeyOK
    <3>2. pairs' = pairs \union {p}
      BY <2>1 DEF ReturnKeys
    <3> QED BY <3>1, <3>2 DEF HistoryOK, PairsConsistent
  <2>2. CASE ~ReturnKeys(c)
    <3>1. pairs' = pairs
      BY <2>2, ResultsStay DEF Returns, ReturnError, ReturnAEAD, ReturnSealed, ReturnOpened
    <3> QED BY <3>1 DEF HistoryOK, PairsConsistent
  <2> QED BY <2>1, <2>2
<1>3. SealedUnderOwnKeys' /\ \A b \in sealed' : b.aead \in aeads'
  <2>1. CASE ReturnSealed(c)
    <3> DEFINE b == [aead |-> call[c].aead, nonce |-> call[c].nonce, pt |-> call[c].pt,
                     aad |-> call[c].aad, ct |-> CallCiphertext(c), tag |-> work[c].tag]
    <3>1. /\ b.ct = [by |-> IF b.pt.len = 0 THEN {} ELSE {b.aead.aes.id}, nonce |-> b.nonce, pt |-> b.pt]
          /\ b.tag = [key |-> b.aead.hmac.id, nonce |-> b.nonce, aad |-> b.aad, ct |-> b.ct]
          /\ b.aead \in aeads
      BY <2>1, MessageSealed DEF ArgumentsOK
    <3>2. sealed' = sealed \union {b} /\ aeads' = aeads
      BY <2>1 DEF ReturnSealed
    <3> HIDE DEF b
    <3> QED BY <3>1, <3>2 DEF HistoryOK, SealedUnderOwnKeys
  <2>2. CASE ~ReturnSealed(c)
    <3>1. sealed' = sealed /\ aeads \subseteq aeads'
      BY <2>2, ResultsStay DEF Returns, ReturnError, ReturnKeys, ReturnAEAD, ReturnOpened
    <3> QED BY <3>1 DEF HistoryOK, SealedUnderOwnKeys
  <2> QED BY <2>1, <2>2
<1> QED BY <1>1, <1>2, <1>3 DEF HistoryOK

-----------------------------------------------------------------------------
(* The data is in order in every state. *)

\* A step of a client.
LEMMA ClientData ==
  ASSUME DataInv, HandleInv', NEW c \in Client, StepOf(c)
  PROVE  DataInv'
<1>1. TypeOK /\ TypeOK'
  BY DEF DataInv, HandleInv, IInv
<1>2. HistoryOK'
  BY HistoryStep DEF DataInv
<1>3. ContentOK(c)' /\ WorkOK(c)' /\ ArgumentsOK(c)' /\ OutcomeOK(c)'
  BY <1>1, OwnContent, OwnWork, OwnAnswer DEF DataInv
<1>4. Touches(c)
  BY StepTouches DEF DataInv
<1>5. Apart(c) /\ DataApart(c)
  BY <1>1, OthersApart, OthersConnections, ResultsStay DEF Apart, DataApart
<1>6. ASSUME NEW d \in Client \ {c}
      PROVE  ContentOK(d)' /\ WorkOK(d)' /\ ArgumentsOK(d)' /\ OutcomeOK(d)'
  BY <1>4, <1>5, OthersData DEF DataInv
<1> QED BY <1>2, <1>3, <1>6 DEF DataInv

\* A step in which no call moves and nothing new is loaded.
LEMMA StillData ==
  ASSUME DataInv, HandleInv', UNCHANGED <<callVars, dataVars>>, served' \subseteq served,
         objects' \subseteq objects, sessions' \subseteq sessions
  PROVE  DataInv'
<1>1. HistoryOK'
  <2>1. UNCHANGED <<pairs, aeads, sealed, made, work, outcome>> /\ HistoryOK
    BY DEF DataInv, callVars, dataVars
  <2>2. IdsOK'
    BY <2>1, IdsKept DEF HistoryOK, Filed, Running, Idle
  <2>3. PairsConsistent' /\ SealedUnderOwnKeys' /\ \A b \in sealed' : b.aead \in aeads'
    BY <2>1 DEF HistoryOK, PairsConsistent, SealedUnderOwnKeys
  <2> QED BY <2>2, <2>3 DEF HistoryOK
<1>2. ASSUME NEW c \in Client PROVE ContentOK(c)'
  <2>1. \A v, kind : /\ Loaded(c, v, kind)' \subseteq Loaded(c, v, kind)
                     /\ OpenSession(c, v)' \subseteq OpenSession(c, v)
    BY DEF Loaded, ObjectsAt, OpenSession, SessionsAt, callVars
  <2>2. /\ \A m : (Taken(c, m)' <=> Taken(c, m)) /\ (Ahead(c, m)' <=> Ahead(c, m))
        /\ AssertedIn(c, "trial")' = AssertedIn(c, "trial")
        /\ \A v : KeyFile(c, v)' = KeyFile(c, v)
    BY DEF Taken, Ahead, AssertedIn, KeyFile, callVars
  <2>3. ContentOK(c)
    BY DEF DataInv
  <2> QED BY <2>1, <2>2, <2>3 DEF ContentOK, Failing, KeysThere, SequenceThere, PrimaryThere, TrialThere,
       callVars
<1>3. ASSUME NEW c \in Client PROVE WorkOK(c)'
  <2>1. \A m : Taken(c, m)' <=> Taken(c, m)
    BY DEF Taken, Ahead, callVars
  <2> QED BY <2>1, WorkKept DEF DataInv, Failing, callVars
<1>4. \A c \in Client : ArgumentsOK(c)' /\ OutcomeOK(c)'
  BY DEF DataInv, ArgumentsOK, OutcomeOK, Failing, callVars, dataVars
<1> QED BY <1>1, <1>2, <1>3, <1>4 DEF DataInv

\* Nothing has been sealed, opened or promised at the start.
LEMMA InitData == Init => DataInv
<1> SUFFICES ASSUME Init PROVE DataInv
  OBVIOUS
<1>1. HandleInv
  BY InitHandles
<1>2. ASSUME NEW c \in Client PROVE \A m : ~Taken(c, m)
  BY DEF Init, Taken, StepsOf
<1>3. IdsOK
  <2>1. \A c \in Client, v \in Roles : work[c][v] = NilKey /\ ~Running(c)
    BY NilKeyIsNone DEF Init, Roles, Running, Idle
  <2>2. made = MadeBefore /\ pairs = InitPairs /\ aeads = InitAEADs
    BY DEF Init
  <2> QED BY <2>1, <2>2, KeyAssumption DEF IdsOK, Roles
<1>4. HistoryOK
  BY <1>3, PairAssumption DEF Init, HistoryOK, PairsConsistent, SealedUnderOwnKeys
<1>5. \A c \in Client : ContentOK(c)
  BY <1>2 DEF ContentOK, KeysThere, SequenceThere, PrimaryThere, TrialThere
<1>6. \A c \in Client : WorkOK(c)
  BY DEF Init, WorkOK, CryptOK, NewKeyOK
<1>7. \A c \in Client : ArgumentsOK(c) /\ OutcomeOK(c)
  BY DEF Init, ArgumentsOK, OutcomeOK
<1> QED BY <1>1, <1>4, <1>5, <1>6, <1>7 DEF DataInv

\* No step breaks the data invariant.
LEMMA NextData == DataInv /\ [Next]_vars => DataInv'
<1> SUFFICES ASSUME DataInv, [Next]_vars PROVE DataInv'
  OBVIOUS
<1>1. HandleInv'
  BY NextHandles DEF DataInv
<1>2. ASSUME NEW c \in Client, StepOf(c) PROVE DataInv'
  BY <1>1, <1>2, ClientData
<1>3. CASE Restart \/ ExtendPCR \/ ChangeOwnerAuth \/ Clear
  <2>1. /\ UNCHANGED <<callVars, dataVars>> /\ served' \subseteq served
        /\ objects' \subseteq objects /\ sessions' \subseteq sessions
    BY <1>3 DEF Restart, ExtendPCR, ChangeOwnerAuth, Clear
  <2> QED BY <1>1, <2>1, StillData
<1>4. CASE UNCHANGED vars
  BY <1>1, <1>4, StillData DEF vars, tpmVars
<1> QED BY <1>2, <1>3, <1>4 DEF Next, Environment, StepOf

-----------------------------------------------------------------------------
(* What callers can rely on. *)

\* A call of Open that did not fail was given what some call of Seal returned,
\* and decrypts it to the text that was sealed.
LEMMA OpenedWasSealed ==
  ASSUME DataInv, NEW c \in Client, call[c].op = "Open", todo[c] = <<>>, ~Failing(c)
  PROVE  \E b \in sealed :
           /\ b.aead.hmac = call[c].aead.hmac
           /\ b.nonce = call[c].nonce /\ b.aad = call[c].aad
           /\ b.ct = call[c].ct /\ b.tag = call[c].tag
           /\ b.aead.aes = call[c].aead.aes => Opened(c) = b.pt
<1>1. \A m \in StepsOf(call[c]) : Taken(c, m)
  BY DEF Taken, Ahead
<1>2. /\ Taken(c, <<"CheckLengths", "none">>) /\ Taken(c, TagStep) /\ Taken(c, <<"CheckTag", "none">>)
      /\ AESStep \in StepsOf(call[c]) <=> call[c].ct.pt.len # 0
  <2>1. AESStep \in StepsOf(call[c]) <=> call[c].ct.pt.len # 0
    BY DEF StepsOf, OpenSteps, CryptSteps, SessionSteps, AESStep
  <2> QED BY <1>1, <2>1, HasSteps
<1>3. CryptOK(c) /\ ArgumentsOK(c) /\ HistoryOK
  BY DEF DataInv, WorkOK
<1>4. /\ LengthsOK(call[c]) /\ work[c].tag = call[c].tag
      /\ work[c].tag = Tag(call[c].aead.hmac, call[c].nonce, call[c].aad, call[c].ct)
      /\ work[c].by = IF call[c].ct.pt.len = 0 THEN {} ELSE {call[c].aead.aes.id}
  BY <1>1, <1>2, <1>3 DEF CryptOK, CallCiphertext
<1>5. PICK b \in sealed : b.tag = call[c].tag
  BY <1>3, <1>4 DEF ArgumentsOK, LengthsOK
<1>6. /\ b.ct = [by |-> IF b.pt.len = 0 THEN {} ELSE {b.aead.aes.id}, nonce |-> b.nonce, pt |-> b.pt]
      /\ b.tag = [key |-> b.aead.hmac.id, nonce |-> b.nonce, aad |-> b.aad, ct |-> b.ct]
      /\ b.aead \in aeads
  BY <1>3 DEF HistoryOK, SealedUnderOwnKeys
<1>7. /\ b.aead.hmac.id = call[c].aead.hmac.id /\ b.nonce = call[c].nonce /\ b.aad = call[c].aad
      /\ b.ct = call[c].ct
  <2> DEFINE t == b.tag
  <2>1. t = [key |-> b.aead.hmac.id, nonce |-> b.nonce, aad |-> b.aad, ct |-> b.ct]
    BY <1>6
  <2>2. t = [key |-> call[c].aead.hmac.id, nonce |-> call[c].nonce, aad |-> call[c].aad, ct |-> call[c].ct]
    BY <1>4, <1>5 DEF Tag
  <2>3. t.key = b.aead.hmac.id /\ t.nonce = b.nonce /\ t.aad = b.aad /\ t.ct = b.ct
    BY ONLY <2>1
  <2>4. /\ t.key = call[c].aead.hmac.id /\ t.nonce = call[c].nonce
        /\ t.aad = call[c].aad /\ t.ct = call[c].ct
    BY ONLY <2>2
  <2> QED BY <2>3, <2>4
<1>8. b.aead.hmac = call[c].aead.hmac
  <2>1. b.aead.hmac \in Filed /\ call[c].aead.hmac \in Filed
    BY <1>3, <1>6 DEF ArgumentsOK, Filed, KeysOf
  <2>2. \A k, l \in Filed : k.id = l.id => k = l
    BY <1>3 DEF HistoryOK, IdsOK, Filed
  <2> QED BY <1>7, <2>1, <2>2
<1>9. ASSUME b.aead.aes = call[c].aead.aes PROVE Opened(c) = b.pt
  <2>1. /\ b.ct.by = IF b.pt.len = 0 THEN {} ELSE {b.aead.aes.id}
        /\ b.ct.nonce = b.nonce /\ b.ct.pt = b.pt
    <3> DEFINE ct == b.ct
    <3>1. ct = [by |-> IF b.pt.len = 0 THEN {} ELSE {b.aead.aes.id}, nonce |-> b.nonce, pt |-> b.pt]
      BY <1>6
    <3> QED BY ONLY <3>1
  <2>2. call[c].ct.by = work[c].by /\ call[c].ct.nonce = call[c].nonce /\ call[c].ct.pt = b.pt
    BY <1>4, <1>7, <1>9, <2>1
  <2> QED BY <2>2 DEF Opened, Decrypted
<1> QED BY <1>5, <1>7, <1>8, <1>9

\* What a call has loaded and computed is what its steps so far give: of the
\* content of the handles in its variables up to its answer.
THEOREM DataInvariant == Spec => []DataInv
BY InitData, NextData, PTL DEF Spec

\* What Seal returns is encrypted and authenticated with its instance's keys.
THEOREM SealsUnderOwnKeys == Spec => []SealedUnderOwnKeys
<1>1. DataInv => SealedUnderOwnKeys
  BY DEF DataInv, HistoryOK
<1> QED BY <1>1, DataInvariant, PTL

\* The two keys NewKey returns agree in everything its caller chose.
THEOREM KeepsPairsConsistent == Spec => []PairsConsistent
<1>1. DataInv => PairsConsistent
  BY DEF DataInv, HistoryOK
<1> QED BY <1>1, DataInvariant, PTL

\* If Open succeeds, it returns what Seal was given.
THEOREM OpensOnlySealed == Spec => []OpenAuthentic
<1>1. DataInv => OpenAuthentic
  <2> SUFFICES ASSUME DataInv, NEW c \in Client, call[c].op = "Open", outcome[c].status = "ok"
               PROVE  \E b \in sealed :
                        /\ b.aead.hmac = call[c].aead.hmac
                        /\ b.nonce = call[c].nonce /\ b.aad = call[c].aad
                        /\ b.ct = call[c].ct /\ b.tag = call[c].tag
                        /\ b.aead.aes = call[c].aead.aes => Opened(c) = b.pt
    BY DEF OpenAuthentic
  <2>1. todo[c] = <<>> /\ ~Failing(c)
    BY DEF DataInv, HandleInv, OrderOK, OutcomeOK, Idle
  <2> QED BY <2>1, OpenedWasSealed
<1> QED BY <1>1, DataInvariant, PTL

-----------------------------------------------------------------------------
(* The library implements the service. *)

None == [id |-> "none", len |-> 0]

\* What a client sees of its call, before and after a step.
LEMMA Seen ==
  /\ replies = [c \in Client |-> replies[c]]
  /\ \A c \in Client :
       /\ replies[c].status = outcome[c].status
       /\ ~(call[c].op = "Open" /\ outcome[c].status = "ok") =>
            replies[c] = [status |-> outcome[c].status, text |-> None]
       /\ call[c].op = "Open" /\ outcome[c].status = "ok" =>
            replies[c] = [status |-> "ok", text |-> Opened(c)]
BY DEF replies, Reply, Opened, None

\* A caller sees the text of an outcome only if it is that of an Open that
\* succeeded.
LEMMA SeenAfter ==
  /\ replies' = [c \in Client |-> replies'[c]]
  /\ \A c \in Client :
       /\ replies'[c].status = outcome'[c].status
       /\ ~(call'[c].op = "Open" /\ outcome'[c].status = "ok") =>
            replies'[c] = [status |-> outcome'[c].status, text |-> None]
       /\ call'[c].op = "Open" /\ outcome'[c].status = "ok" /\ call'[c] = call[c] /\ work'[c] = work[c] =>
            replies'[c] = [status |-> "ok", text |-> Opened(c)]
       /\ call'[c] = call[c] /\ work'[c] = work[c] /\ outcome'[c].status = outcome[c].status =>
            replies'[c] = replies[c]
BY DEF replies, Reply, Opened, Decrypted, Garbage, None

\* A step of a client shows in its own reply only.
LEMMA RepliesApart ==
  ASSUME TypeOK, NEW c \in Client, StepOf(c)
  PROVE  replies' = [replies EXCEPT ![c] = replies'[c]]
<1>1. \A d \in Client \ {c} : replies'[d] = replies[d]
  BY OthersApart, SeenAfter
<1> QED BY <1>1, Seen, SeenAfter

\* A call starts: it is asked for.
LEMMA AskStep ==
  ASSUME TypeOK, NEW c \in Client, Calls(c)
  PROVE  Service!Ask(c)
<1> PICK a, program : Start(c, a, program) /\ Fresh(a)
  BY CallStarts
<1>1. a \in Requests
  BY DEF Fresh, Requests
<1>2. /\ Idle(c) /\ call' = [call EXCEPT ![c] = a] /\ call'[c] = a
      /\ outcome'[c].status = "pending" /\ UNCHANGED <<pairs, aeads, sealed>>
  BY DEF Start, TypeOK, dataVars
<1>3. replies[c].status # "pending"
  BY <1>2, Seen DEF Idle
<1>4. replies' = [replies EXCEPT ![c] = [status |-> "pending", text |-> None]]
  <2>1. replies'[c] = [status |-> "pending", text |-> None]
    BY <1>2, SeenAfter
  <2>2. replies' = [replies EXCEPT ![c] = replies'[c]]
    BY RepliesApart DEF StepOf
  <2> QED BY <2>1, <2>2
<1> QED BY <1>1, <1>2, <1>3, <1>4 DEF Service!Ask, Service!Pending, Service!NoText, None

\* A call that fails or whose process dies is refused: it had no effect.
LEMMA RefuseStep ==
  ASSUME TypeOK, NEW c \in Client, ReturnError(c) \/ Crash(c)
  PROVE  Service!Refuse(c)
<1>1. /\ Running(c) /\ outcome'[c].status = "failed" /\ UNCHANGED <<call, pairs, aeads, sealed>>
  <2>1. CASE ReturnError(c)
    BY <2>1, Answered DEF ReturnError
  <2>2. CASE Crash(c)
    <3>1. Running(c) /\ outcome'[c].status = "failed" /\ call' = call
      BY <2>2, CrashAnswer
    <3>2. UNCHANGED <<pairs, aeads, sealed>>
      BY <2>2 DEF Crash, dataVars
    <3> QED BY <3>1, <3>2
  <2> QED BY <2>1, <2>2
<1>2. replies[c].status = "pending"
  BY <1>1, Seen DEF Running, Idle
<1>3. replies' = [replies EXCEPT ![c] = [status |-> "failed", text |-> None]]
  <2>1. replies'[c] = [status |-> "failed", text |-> None]
    BY <1>1, SeenAfter
  <2>2. replies' = [replies EXCEPT ![c] = replies'[c]]
    BY RepliesApart DEF StepOf, Advance, Returns
  <2> QED BY <2>1, <2>2
<1> QED BY <1>1, <1>2, <1>3
  DEF Service!Refuse, Service!Answer, Service!Pending, Service!NoText, None

\* A call that returns a result is answered.
LEMMA AnswerStep ==
  ASSUME TypeOK, NEW c \in Client, Returns(c), NEW op, Ends(c, op, "ok")
  PROVE  /\ op # "Open" => Service!Answer(c, "ok", Service!NoText)
         /\ op = "Open" => replies'[c].text = Opened(c) /\ Service!Answer(c, "ok", replies'[c].text)
<1>1. /\ Running(c) /\ call[c].op = op /\ outcome'[c].status = "ok" /\ UNCHANGED <<call, work>>
  BY Answered
<1>2. replies[c].status = "pending"
  BY <1>1, Seen DEF Running, Idle
<1>3. replies' = [replies EXCEPT ![c] = replies'[c]]
  BY RepliesApart DEF StepOf, Advance
<1>4. CASE op # "Open"
  <2>1. replies'[c] = [status |-> "ok", text |-> None]
    BY <1>1, <1>4, SeenAfter
  <2>2. replies' = [replies EXCEPT ![c] = [status |-> "ok", text |-> None]]
    BY <1>3, <2>1
  <2> QED BY <1>1, <1>2, <1>4, <2>2 DEF Service!Answer, Service!Pending, Service!NoText, None
<1>5. CASE op = "Open"
  <2>1. replies'[c] = [status |-> "ok", text |-> Opened(c)]
    BY <1>1, <1>5, SeenAfter
  <2>2. replies'[c].text = Opened(c) /\ replies'[c] = [status |-> "ok", text |-> replies'[c].text]
    BY <2>1
  <2>3. replies' = [replies EXCEPT ![c] = [status |-> "ok", text |-> replies'[c].text]]
    BY <1>3, <2>2
  <2> QED BY <1>1, <1>2, <1>5, <2>2, <2>3 DEF Service!Answer, Service!Pending
<1> QED BY <1>4, <1>5

\* NewKey returns two new keys.
LEMMA MakeKeysStep ==
  ASSUME DataInv, NEW c \in Client, ReturnKeys(c)
  PROVE  Service!MakeKeys(c)
<1> DEFINE p == [aes |-> work[c].aes, hmac |-> work[c].hmac]
<1>1. TypeOK /\ HandleInv /\ IdsOK /\ WorkOK(c)
  BY DEF DataInv, HandleInv, IInv, HistoryOK
<1>2. /\ call[c].op = "NewKey"
      /\ p.aes.kind = "aes" /\ p.hmac.kind = "hmac" /\ p.aes.id # p.hmac.id
      /\ p.aes.seed = p.hmac.seed
      /\ \A k \in {p.aes, p.hmac} :
           k.policy = PolicyOf(call[c].session) /\ k.auth = call[c].keyPass
  BY <1>1, KeysReturned DEF KeyOK
<1>3. {p.aes.id, p.hmac.id} \intersect Service!KeyIds = {}
  <2>1. \A k \in Filed : k.id # work[c].aes.id /\ k.id # work[c].hmac.id
    BY <1>1, KeysReturned DEF Roles
  <2>2. Service!KeyIds \subseteq {k.id : k \in Filed}
    BY DEF Service!KeyIds, Filed, KeysOf
  <2> QED BY <2>1, <2>2
<1>4. pairs' = pairs \union {p} /\ UNCHANGED <<aeads, sealed>>
  BY DEF ReturnKeys
<1>5. Service!Answer(c, "ok", Service!NoText)
  BY <1>1, AnswerStep DEF ReturnKeys, Returns
<1> HIDE DEF p
<1>6. p \in pairs'
  BY <1>4
<1> QED BY <1>2, <1>3, <1>4, <1>5, <1>6 DEF Service!MakeKeys

\* NewAESCTRHMAC returns an instance of the keys it was given.
LEMMA MakeAEADStep ==
  ASSUME DataInv, NEW c \in Client, ReturnAEAD(c)
  PROVE  Service!MakeAEAD(c)
<1>1. TypeOK /\ HandleInv /\ ArgumentsOK(c)
  BY DEF DataInv, HandleInv, IInv
<1>2. call[c].op = "NewAESCTRHMAC" /\ NilKey \notin {call[c].aes, call[c].hmac}
  BY <1>1, InstanceMade DEF KeysOK
<1>3. Service!Answer(c, "ok", Service!NoText)
  BY <1>1, AnswerStep DEF ReturnAEAD, Returns
<1> QED BY <1>2, <1>3 DEF Service!MakeAEAD, ReturnAEAD

\* Seal returns the message it should.
LEMMA SealMessageStep ==
  ASSUME DataInv, NEW c \in Client, ReturnSealed(c)
  PROVE  Service!SealMessage(c)
<1>1. TypeOK /\ HandleInv /\ WorkOK(c) /\ ArgumentsOK(c)
  BY DEF DataInv, HandleInv, IInv
<1>2. /\ call[c].op = "Seal" /\ call[c].aead \in aeads /\ call[c].nonce.len = nonceSize
      /\ Service!Message(call[c]) =
           [aead |-> call[c].aead, nonce |-> call[c].nonce, pt |-> call[c].pt, aad |-> call[c].aad,
            ct |-> CallCiphertext(c), tag |-> work[c].tag]
  BY <1>1, MessageSealed DEF ArgumentsOK, LengthsOK, Service!Message
<1>3. Service!Answer(c, "ok", Service!NoText)
  BY <1>1, AnswerStep DEF ReturnSealed, Returns
<1> QED BY <1>2, <1>3 DEF Service!SealMessage, ReturnSealed

\* Open returns the text that was sealed.
LEMMA OpenMessageStep ==
  ASSUME DataInv, NEW c \in Client, ReturnOpened(c)
  PROVE  Service!OpenMessage(c)
<1>1. TypeOK /\ ArgumentsOK(c) /\ UNCHANGED <<pairs, aeads, sealed>>
  BY DEF DataInv, HandleInv, IInv, ReturnOpened
<1>2. call[c].op = "Open" /\ ~Failing(c) /\ todo[c] = <<>>
  BY <1>1, Answered DEF ReturnOpened, Ends, Unwinding
<1>3. replies'[c].text = Opened(c) /\ Service!Answer(c, "ok", replies'[c].text)
  BY <1>1, AnswerStep DEF ReturnOpened, Returns
<1>4. PICK b \in sealed :
        /\ b.aead.hmac = call[c].aead.hmac
        /\ b.nonce = call[c].nonce /\ b.aad = call[c].aad
        /\ b.ct = call[c].ct /\ b.tag = call[c].tag
        /\ b.aead.aes = call[c].aead.aes => Opened(c) = b.pt
  BY <1>2, OpenedWasSealed
<1>5. call[c].aead \in aeads
  BY <1>1, <1>2 DEF ArgumentsOK
<1> QED BY <1>1, <1>2, <1>3, <1>4, <1>5 DEF Service!OpenMessage

\* Every other step is invisible.
LEMMA InvisibleStep ==
  ASSUME TypeOK, NEW c \in Client, StepOf(c), ~Calls(c), ~Returns(c), ~Crash(c)
  PROVE  UNCHANGED Service!serviceVars
<1>1. UNCHANGED <<call, pairs, aeads, sealed>>
  BY Unanswered, ResultsStay
<1>2. replies' = replies
  <2>1. replies'[c] = replies[c]
    <3>1. CASE Idle(c)
      BY <1>1, <3>1, Unanswered, SeenAfter
    <3>2. CASE Running(c)
      <4>1. outcome'[c].status = "pending" /\ outcome[c].status = "pending"
        BY <3>2, Unanswered DEF Running, Idle
      <4> QED BY <4>1, Seen, SeenAfter
    <3> QED BY <3>1, <3>2 DEF Running
  <2>2. replies' = [replies EXCEPT ![c] = replies'[c]]
    BY RepliesApart
  <2> QED BY <2>1, <2>2, Seen
<1> QED BY <1>1, <1>2 DEF Service!serviceVars

\* The library implements the service: with others on the device, commands that
\* fail and processes that die, every step is one of the service or invisible.
THEOREM ImplementsService == Spec => Implements
<1>1. Init => Service!Init
  BY DEF Init, Service!Init, replies, Reply, Service!NoText, Opened, Decrypted, Garbage
<1>2. DataInv /\ [Next]_vars => [Service!Next]_Service!serviceVars
  <2> SUFFICES ASSUME DataInv, [Next]_vars PROVE Service!Next \/ UNCHANGED Service!serviceVars
    OBVIOUS
  <2>1. TypeOK
    BY DEF DataInv, HandleInv, IInv
  <2>2. ASSUME NEW c \in Client, StepOf(c) PROVE Service!Next \/ UNCHANGED Service!serviceVars
    <3>1. CASE Calls(c)
      BY <2>1, <3>1, AskStep DEF Service!Next
    <3>2. CASE ReturnError(c) \/ Crash(c)
      BY <2>1, <3>2, RefuseStep DEF Service!Next
    <3>3. CASE ReturnKeys(c)
      BY <3>3, MakeKeysStep DEF Service!Next
    <3>4. CASE ReturnAEAD(c)
      BY <3>4, MakeAEADStep DEF Service!Next
    <3>5. CASE ReturnSealed(c)
      BY <3>5, SealMessageStep DEF Service!Next
    <3>6. CASE ReturnOpened(c)
      BY <3>6, OpenMessageStep DEF Service!Next
    <3>7. CASE ~Calls(c) /\ ~Returns(c) /\ ~Crash(c)
      BY <2>1, <2>2, <3>7, InvisibleStep
    <3> QED BY <3>1, <3>2, <3>3, <3>4, <3>5, <3>6, <3>7 DEF Returns
  <2>3. ASSUME UNCHANGED <<callVars, dataVars>> PROVE UNCHANGED Service!serviceVars
    BY <2>3 DEF Service!serviceVars, callVars, dataVars, replies, Reply, Opened, Decrypted, Garbage
  <2>4. CASE Restart \/ ExtendPCR \/ ChangeOwnerAuth \/ Clear
    BY <2>3, <2>4 DEF Restart, ExtendPCR, ChangeOwnerAuth, Clear
  <2>5. CASE UNCHANGED vars
    BY <2>3, <2>5 DEF vars
  <2> QED BY <2>2, <2>4, <2>5 DEF Next, Environment, StepOf
<1> QED BY <1>1, <1>2, InitData, NextData, PTL DEF Spec, Implements, Service!Spec
=============================================================================
