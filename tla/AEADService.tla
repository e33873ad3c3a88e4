---------------------------- MODULE AEADService ----------------------------
(***************************************************************************)
(* What the library promises its callers, without a TPM: a call is asked   *)
(* for and then answered, in one step that takes effect as a whole or not  *)
(* at all, whatever other calls are in progress.  The service may refuse   *)
(* any call; what it answers otherwise is what this module says.           *)
(***************************************************************************)
CONSTANTS
  Client,
  Request,          \* the calls clients may ask for
  InitPairs, InitAEADs,
  nonceSize,
  NilKey,           \* no key
  PolicyOf(_)       \* the policy of keys made with a Session

VARIABLES
  pairs, aeads,     \* key pairs and instances answered so far
  sealed,           \* messages answered so far, with what they were made of
  request,          \* request[c]: the last call of c
  reply             \* reply[c]: how it went, and the text it returned

serviceVars == <<pairs, aeads, sealed, request, reply>>

NoText == [id |-> "none", len |-> 0]

Init ==
  /\ pairs = InitPairs /\ aeads = InitAEADs /\ sealed = {}
  /\ request = [c \in Client |-> [op |-> "none"]]
  /\ reply = [c \in Client |-> [status |-> "none", text |-> NoText]]

Pending(c) == reply[c].status = "pending"

\* The client chooses its call, so the new request is not determined here.
Ask(c) ==
  /\ ~Pending(c)
  /\ request'[c] \in Request
  /\ request' = [request EXCEPT ![c] = request'[c]]
  /\ reply' = [reply EXCEPT ![c] = [status |-> "pending", text |-> NoText]]
  /\ UNCHANGED <<pairs, aeads, sealed>>

Answer(c, status, text) ==
  /\ Pending(c)
  /\ reply' = [reply EXCEPT ![c] = [status |-> status, text |-> text]]
  /\ UNCHANGED request

Refuse(c) == Answer(c, "failed", NoText) /\ UNCHANGED <<pairs, aeads, sealed>>

KeyIds == {p.aes.id : p \in pairs} \union {p.hmac.id : p \in pairs}

\* Two new keys, under the policy and with the password that were asked for.
MakeKeys(c) ==
  /\ request[c].op = "NewKey"
  /\ \E p \in pairs' :
       /\ pairs' = pairs \union {p}
       /\ p.aes.kind = "aes" /\ p.hmac.kind = "hmac"
       /\ p.aes.id # p.hmac.id /\ {p.aes.id, p.hmac.id} \intersect KeyIds = {}
       /\ p.aes.seed = p.hmac.seed
       /\ \A k \in {p.aes, p.hmac} :
            k.policy = PolicyOf(request[c].session) /\ k.auth = request[c].keyPass
  /\ Answer(c, "ok", NoText)
  /\ UNCHANGED <<aeads, sealed>>

MakeAEAD(c) ==
  LET a == request[c]
  IN /\ a.op = "NewAESCTRHMAC" /\ NilKey \notin {a.aes, a.hmac}
     /\ aeads' = aeads \union {[aes |-> a.aes, hmac |-> a.hmac,
                                parentPass |-> a.parentPass, session |-> a.session]}
     /\ Answer(c, "ok", NoText)
     /\ UNCHANGED <<pairs, sealed>>

\* The message a Seal makes: encrypted with the one key of its instance and
\* authenticated with the other.
Message(a) ==
  LET ct == [by |-> IF a.pt.len = 0 THEN {} ELSE {a.aead.aes.id}, nonce |-> a.nonce, pt |-> a.pt]
  IN [aead |-> a.aead, nonce |-> a.nonce, pt |-> a.pt, aad |-> a.aad, ct |-> ct,
      tag |-> [key |-> a.aead.hmac.id, nonce |-> a.nonce, aad |-> a.aad, ct |-> ct]]

SealMessage(c) ==
  /\ request[c].op = "Seal" /\ request[c].aead \in aeads
  /\ request[c].nonce.len = nonceSize
  /\ sealed' = sealed \union {Message(request[c])}
  /\ Answer(c, "ok", NoText)
  /\ UNCHANGED <<pairs, aeads>>

\* Only what was sealed is opened; with the AES key it was sealed with, to the
\* text that was sealed.
OpenMessage(c) ==
  LET a == request[c]
  IN /\ a.op = "Open" /\ a.aead \in aeads
     /\ \E b \in sealed :
          /\ b.aead.hmac = a.aead.hmac
          /\ b.nonce = a.nonce /\ b.aad = a.aad /\ b.ct = a.ct /\ b.tag = a.tag
          /\ b.aead.aes = a.aead.aes => reply'[c].text = b.pt
     /\ Answer(c, "ok", reply'[c].text)
     /\ UNCHANGED <<pairs, aeads, sealed>>

Next ==
  \E c \in Client :
    \/ Ask(c) \/ Refuse(c)
    \/ MakeKeys(c) \/ MakeAEAD(c) \/ SealMessage(c) \/ OpenMessage(c)

Spec == Init /\ [][Next]_serviceVars

\* Every call is answered.
LiveSpec == Spec /\ \A c \in Client : Pending(c) ~> ~Pending(c)
=============================================================================
