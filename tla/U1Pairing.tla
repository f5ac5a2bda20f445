--------------------------------- MODULE U1Pairing ---------------------------------
(***************************************************************************)
(* Pairing with a Snapmaker U1 (snapmaker/pairing.rs, commands.rs): on a    *)
(* cleartext bus every client shares, ask for the state of our client id,   *)
(* ask for authorisation, and wait for the user to tap Approve on the       *)
(* printer's screen.  The answers are broadcast: those to another client's  *)
(* request reach us too.  What is kept is a token, under the instance.      *)
(***************************************************************************)
EXTENDS Naturals, Sequences

CONSTANTS
    Attempts,       \* how often the user pairs or unpairs
    Others          \* what other clients send on the bus

\* Client ids: ours are numbered, fresh_clientid never repeats one.
Other == 0

VARIABLES
    stage,          \* "idle", "confirm" or "request"
    clientid,       \* the id of this attempt
    fresh,          \* the last id that was made up
    token,          \* the id of the saved token, 0 for none
    requests,       \* what the printer has been sent
    inbox,          \* what is on its way to us
    popup,          \* the ids the printer's screen asks about
    approved,       \* the ids in the printer's auth database
    attemptsLeft, othersLeft

pairingVars ==
    <<stage, clientid, fresh, token, requests, inbox, popup, approved, attemptsLeft, othersLeft>>

PairingInit ==
    /\ stage = "idle" /\ clientid = Other /\ fresh = 0 /\ token = 0
    /\ requests = <<>> /\ inbox = <<>> /\ popup = {} /\ approved = {}
    /\ attemptsLeft = Attempts /\ othersLeft = Others

Paired == token # 0
Send(method, id) == requests' = Append(requests, [method |-> method, id |-> id])

\* u1_pair: a token's id is used again; the queue of the session before is gone.
U1Pair ==
    /\ stage = "idle" /\ attemptsLeft > 0 /\ attemptsLeft' = attemptsLeft - 1
    /\ clientid' = IF Paired THEN token ELSE fresh + 1
    /\ fresh' = IF Paired THEN fresh ELSE fresh + 1
    /\ stage' = "confirm" /\ inbox' = <<>> /\ Send("confirm", clientid')
    /\ UNCHANGED <<token, popup, approved, othersLeft>>

\* u1_unpair
U1Unpair ==
    /\ stage = "idle" /\ Paired /\ attemptsLeft > 0 /\ attemptsLeft' = attemptsLeft - 1
    /\ token' = 0
    /\ UNCHANGED <<stage, clientid, fresh, requests, inbox, popup, approved, othersLeft>>

Fail == stage' = "idle" /\ UNCHANGED <<clientid, fresh, token, requests>>

\* mutant: whoever was approved
EntryOfAnyone(params) == {p \in params : p.state = "approve"}

\* The entry of a notification that is ours, approved.
EntryOf(params) == {p \in params : p.id = clientid /\ p.state = "approve"}

\* run_bootstrap: any response but a rejection asks for authorisation, once.
\* A notification that does not approve us ends the attempt.
Receive ==
    /\ stage # "idle" /\ inbox # <<>> /\ inbox' = Tail(inbox)
    /\ LET m == Head(inbox)
       IN \/ m.kind = "response" /\ m.state = "rejected" /\ Fail
          \/ /\ m.kind = "response" /\ m.state # "rejected" /\ stage = "confirm"
             /\ stage' = "request" /\ Send("request", clientid)
             /\ UNCHANGED <<clientid, fresh, token>>
          \/ /\ m.kind = "response" /\ m.state # "rejected" /\ stage = "request"
             /\ UNCHANGED <<stage, clientid, fresh, token, requests>>
          \/ /\ m.kind = "notify" /\ EntryOf(m.params) # {}
             /\ stage' = "idle" /\ token' = clientid /\ UNCHANGED <<clientid, fresh, requests>>
          \/ m.kind = "notify" /\ EntryOf(m.params) = {} /\ Fail
    /\ UNCHANGED <<popup, approved, attemptsLeft, othersLeft>>

\* The approval does not come, or the link goes.
TimesOut ==
    /\ stage # "idle" /\ Fail
    /\ UNCHANGED <<inbox, popup, approved, attemptsLeft, othersLeft>>

(***************************************************************************)
(* The printer, its user and the other clients.                            *)
(***************************************************************************)
Hear(m) == inbox' = IF stage = "idle" THEN inbox ELSE Append(inbox, m)
Response(s) == [kind |-> "response", state |-> s]
Notify(id, s) == [kind |-> "notify", params |-> {[id |-> id, state |-> s]}]

Answer ==
    /\ requests # <<>> /\ requests' = Tail(requests)
    /\ LET r == Head(requests)
       IN IF r.method = "request" /\ r.id \in approved
          THEN Hear(Notify(r.id, "approve")) /\ UNCHANGED popup
          ELSE /\ popup' = IF r.method = "request" THEN popup \cup {r.id} ELSE popup
               /\ Hear(Response(IF r.id \in approved THEN "success" ELSE "unauthorized"))
    /\ UNCHANGED <<stage, clientid, fresh, token, approved, attemptsLeft, othersLeft>>
Tap(id, ok) ==
    /\ id \in popup /\ popup' = popup \ {id}
    /\ approved' = IF ok THEN approved \cup {id} ELSE approved
    /\ Hear(Notify(id, IF ok THEN "approve" ELSE "reject"))
    /\ UNCHANGED <<stage, clientid, fresh, token, requests, attemptsLeft, othersLeft>>
Elsewhere(method) ==
    /\ othersLeft > 0 /\ othersLeft' = othersLeft - 1 /\ Send(method, Other)
    /\ UNCHANGED <<stage, clientid, fresh, token, inbox, popup, approved, attemptsLeft>>

PairingNext ==
    \/ U1Pair \/ U1Unpair \/ Receive \/ TimesOut \/ Answer
    \/ \E id \in popup, ok \in BOOLEAN : Tap(id, ok)
    \/ \E method \in {"confirm", "request"} : Elsewhere(method)

PairingSpec == PairingInit /\ [][PairingNext]_pairingVars

\* A token is kept only for an id of ours that the user approved on the
\* printer, whatever other clients do on the bus meanwhile.
TokenIsApproved == Paired => token \in 1..fresh /\ token \in approved
====================================================================================
