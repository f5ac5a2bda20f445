-------------------------- MODULE SliceOutputProofs --------------------------
(***************************************************************************)
(* No preview is lost and none is dropped while it is shown.  What makes   *)
(* HandlesOwned inductive is an account of the page's one slice: where it  *)
(* is (clicked, prepared, ready, active, told), and of the one token each  *)
(* job's preview is: finished, asked for, loaded, cached, dropped.  The    *)
(* queues keep their order, and the order is what empties the cache before *)
(* the next preview of a plate is asked for.                               *)
(*                                                                         *)
(* And what is kept is of the plate as it is: SentInv follows each change  *)
(* of a plate from the slice that reads it, through the edit event that is *)
(* not sent yet and the one that waits behind the slice's own messages, to *)
(* the page that forgets.                                                  *)
(***************************************************************************)
EXTENDS SliceOutput, SliceLifecycleProofs, FiniteSetTheorems, TLAPS

Plates  == {"PlateStarted", "PlateFinished"}
Outcome == Terminal \cup {"Rejected"}
Story   == Plates \cup Outcome

Mail == [kind : Story \cup {"Edited", "Loaded"}, plate : PlateId \cup {All}, job : JobOrNone]
Call == [kind : {"slice", "load", "drop"}, plate : PlateId \cup {All}, job : JobOrNone]

(* What is in a queue, in whatever order. *)
In(queue) == {queue[i] : i \in 1..Len(queue)}
Mails == In(channel)
Calls == In(inbox)

Told(K) == \E m \in Mails : m.kind \in K
Called(kind) == \E c \in Calls : c.kind = kind
ToldOf(kind, j) == \E m \in Mails : m.kind = kind /\ m.job = j
CalledFor(kind, j) == \E c \in Calls : c.kind = kind /\ c.job = j
Active == {j \in Job : phase[j] \in {"between", "slicing"}}

(* What may come after what: a slice is told in order and ends with its     *)
(* outcome, and a preview is loaded before the next slice has begun.        *)
MayFollow(a, b) ==
  /\ a.kind \in Outcome => b.kind \notin Story
  /\ a.kind = "PlateFinished" => b.kind \notin Plates \cup {"Loaded"}
  /\ a.kind = "PlateStarted" => b.kind \notin {"PlateStarted", "Loaded"}
  /\ a.kind = "Loaded" => b.kind # "Loaded"
MayCallAfter(a, b) ==
  /\ a.kind = "slice" => b.kind \notin {"slice", "load"}
  /\ a.kind = "load" => b.kind # "load"
  /\ a.kind = "drop" /\ b.kind = "drop" => a.job # b.job

Types ==
  /\ live \subseteq PlateId /\ unsent \subseteq PlateId \cup {All}
  /\ channel \in Seq(Mail) /\ inbox \in Seq(Call)
  /\ target \in [Job -> PlateId] /\ preview \in [PlateId -> JobOrNone]
  /\ ready \subseteq Job /\ handles \subseteq Job
MailInOrder == \A i, k \in 1..Len(channel) : i < k => MayFollow(channel[i], channel[k])
CallsInOrder == \A i, k \in 1..Len(inbox) : i < k => MayCallAfter(inbox[i], inbox[k])

(* The page's one slice: where it is, and what has been told of it. *)
JobOK ==
  \A j \in Job :
    /\ done[j] \in {0, 1}
    /\ phase[j] = "idle" => done[j] = 0
    /\ j \in ready => phase[j] = "idle"
    /\ j \in Active => total[j] = 1
    /\ phase[j] = "slicing" => done[j] = 0
Numbered == \E n \in Nat : Used = 1..n
MailOK ==
  \A m \in Mails :
    /\ m.kind \in Plates \cup {"Loaded"} =>
         m.job \in Job /\ m.plate = target[m.job] /\ phase[m.job] # "idle"
    /\ m.kind \in {"PlateFinished", "Loaded"} => done[m.job] = 1
Clicked == busy
Preparing == preparing
Resting == ready = {} /\ Active = {} /\ ~Told(Story)
ClickWaits == Called("slice") => Clicked /\ ~Preparing /\ Resting
PreparesAlone == Preparing => Clicked /\ Resting
ReadyAlone ==
  \A j \in ready : Clicked /\ ready = {j} /\ Active = {} /\ ~Told(Story)
ActiveAlone ==
  \A j \in Active :
    /\ Clicked /\ Active = {j} /\ ~Told(Outcome)
    /\ done[j] = 0 => ~Told({"PlateFinished"})
    /\ phase[j] = "between" /\ done[j] = 0 => ~Told(Story)
    /\ \A m \in Mails : m.kind \in Plates => m.job = j
OneTold ==
  /\ Told(Story) => Clicked
  /\ \A m, k \in Mails : m.kind \in Plates /\ k.kind \in Plates => m.job = k.job

(* The way of a preview: finished, asked for, loaded, cached, dropped. *)
CallsOK ==
  \A c \in Calls : c.kind \in {"load", "drop"} =>
    c.job \in Job /\ c.plate = target[c.job] /\ done[c.job] = 1
CacheOK ==
  \A p \in PlateId : preview[p] # NoJob =>
    preview[p] \in Job /\ target[preview[p]] = p /\ done[preview[p]] = 1
Coming ==
  \/ Preparing \/ ready # {} \/ \E j \in Active : done[j] = 0
  \/ Told(Plates)
LoadsFirst == Called("load") => ~Coming /\ ~Told({"Loaded"})
Emptied ==
  ~Told({"PlateStarted"}) =>
    \A j \in Job : phase[j] = "slicing" \/ ToldOf("PlateFinished", j) =>
      ~Told({"Loaded"}) /\ preview[target[j]] = NoJob
LoadedIsNew ==
  /\ \A m \in Mails : m.kind = "Loaded" => preview[m.plate] = NoJob
  /\ \A c \in Calls : c.kind = "load" => preview[c.plate] = NoJob
FinishedIsNew ==
  \A m \in Mails : m.kind = "PlateFinished" =>
    ~ToldOf("Loaded", m.job) /\ \A p \in PlateId : preview[p] # m.job
DroppedIsGone ==
  \A c \in Calls : c.kind = "drop" =>
    /\ ~CalledFor("load", c.job)
    /\ ~ToldOf("PlateFinished", c.job) /\ ~ToldOf("Loaded", c.job)
    /\ \A p \in PlateId : preview[p] # c.job
Owned ==
  \A j \in Job :
    j \in handles <=> \/ \E p \in PlateId : preview[p] = j
                      \/ ToldOf("Loaded", j)
                      \/ CalledFor("drop", j)

Slices == Types /\ MailInOrder /\ CallsInOrder /\ JobOK /\ Numbered /\ MailOK
Turns == ClickWaits /\ PreparesAlone /\ ReadyAlone /\ ActiveAlone /\ OneTold
Previews ==
  /\ CallsOK /\ CacheOK /\ LoadsFirst /\ Emptied
  /\ LoadedIsNew /\ FinishedIsNew /\ DroppedIsGone /\ Owned
OutInv == TypeOK /\ Slices /\ Turns /\ Previews
-----------------------------------------------------------------------------
(* Queues. *)
LEMMA InAppend ==
  ASSUME NEW S, NEW q \in Seq(S), NEW e \in S
  PROVE  /\ Append(q, e) \in Seq(S) /\ Len(Append(q, e)) = Len(q) + 1 /\ Len(q) \in Nat
         /\ \A i \in 1..Len(q) : Append(q, e)[i] = q[i]
         /\ Append(q, e)[Len(q) + 1] = e
         /\ In(Append(q, e)) = In(q) \cup {e}
<1>1. /\ Append(q, e) \in Seq(S) /\ Len(Append(q, e)) = Len(q) + 1 /\ Len(q) \in Nat
      /\ \A i \in 1..Len(q) : Append(q, e)[i] = q[i]
      /\ Append(q, e)[Len(q) + 1] = e
  OBVIOUS
<1> DEFINE r == Append(q, e)
<1> HIDE DEF r
<1>2. r \in Seq(S) /\ Len(r) = Len(q) + 1 /\ (\A i \in 1..Len(q) : r[i] = q[i]) /\ r[Len(q) + 1] = e
  BY <1>1 DEF r
<1>3. ASSUME NEW m \in In(r) PROVE m \in In(q) \cup {e}
  BY <1>1, <1>2, <1>3 DEF In
<1>4. ASSUME NEW m \in In(q) \cup {e} PROVE m \in In(r)
  <2>1. CASE m = e
    <3>1. Len(q) + 1 \in 1..Len(r)
      BY <1>1, <1>2
    <3> QED
      BY <1>2, <2>1, <3>1 DEF In
  <2>2. CASE m \in In(q)
    <3>1. PICK i \in 1..Len(q) : m = q[i]
      BY <2>2 DEF In
    <3>2. i \in 1..Len(r) /\ r[i] = m
      BY <1>1, <1>2, <3>1
    <3> QED
      BY <3>2 DEF In
  <2> QED
    BY <1>4, <2>1, <2>2
<1> QED
  BY <1>1, <1>3, <1>4 DEF r

LEMMA InTail ==
  ASSUME NEW S, NEW q \in Seq(S), q # <<>>
  PROVE  /\ Tail(q) \in Seq(S) /\ Len(Tail(q)) = Len(q) - 1 /\ Len(q) \in Nat \ {0}
         /\ Head(q) \in S /\ Head(q) = q[1]
         /\ \A i \in 1..Len(Tail(q)) : i + 1 \in 2..Len(q) /\ Tail(q)[i] = q[i + 1]
         /\ In(q) = {Head(q)} \cup In(Tail(q))
<1>1. /\ Tail(q) \in Seq(S) /\ Len(Tail(q)) = Len(q) - 1 /\ Len(q) \in Nat \ {0}
      /\ Head(q) \in S /\ Head(q) = q[1]
      /\ \A i \in 1..Len(Tail(q)) : i + 1 \in 2..Len(q) /\ Tail(q)[i] = q[i + 1]
  OBVIOUS
<1> DEFINE r == Tail(q)
<1> HIDE DEF r
<1>2. r \in Seq(S) /\ Len(r) = Len(q) - 1 /\ \A i \in 1..Len(r) : r[i] = q[i + 1]
  BY <1>1 DEF r
<1>3. ASSUME NEW m \in In(r) PROVE m \in In(q)
  <2>1. PICK i \in 1..Len(r) : m = r[i]
    BY <1>3 DEF In
  <2>2. i + 1 \in 1..Len(q) /\ q[i + 1] = m
    BY <1>1, <1>2, <2>1
  <2> QED
    BY <2>2 DEF In
<1>4. Head(q) \in In(q)
  <2>1. 1 \in 1..Len(q)
    BY <1>1
  <2> QED
    BY <1>1, <2>1 DEF In
<1>5. ASSUME NEW m \in In(q), m # Head(q) PROVE m \in In(r)
  <2>1. PICK i \in 1..Len(q) : m = q[i]
    BY <1>5 DEF In
  <2>2. i # 1
    BY <1>1, <1>5, <2>1
  <2>3. i - 1 \in 1..Len(r) /\ r[i - 1] = m
    BY <1>1, <1>2, <2>1, <2>2
  <2> QED
    BY <2>3 DEF In
<1> QED
  BY <1>1, <1>3, <1>4, <1>5 DEF r

LEMMA InConcat ==
  ASSUME NEW S, NEW q \in Seq(S), NEW r \in Seq(S)
  PROVE  /\ q \o r \in Seq(S) /\ Len(q \o r) = Len(q) + Len(r) /\ Len(q) \in Nat /\ Len(r) \in Nat
         /\ \A i \in 1..Len(q) : (q \o r)[i] = q[i]
         /\ \A i \in Len(q) + 1..Len(q) + Len(r) : (q \o r)[i] = r[i - Len(q)]
         /\ In(q \o r) = In(q) \cup In(r)
<1>1. /\ q \o r \in Seq(S) /\ Len(q \o r) = Len(q) + Len(r) /\ Len(q) \in Nat /\ Len(r) \in Nat
      /\ \A i \in 1..Len(q) : (q \o r)[i] = q[i]
      /\ \A i \in Len(q) + 1..Len(q) + Len(r) : (q \o r)[i] = r[i - Len(q)]
  OBVIOUS
<1> DEFINE s == q \o r
<1> HIDE DEF s
<1>2. /\ Len(s) = Len(q) + Len(r)
      /\ \A i \in 1..Len(q) : s[i] = q[i]
      /\ \A i \in Len(q) + 1..Len(q) + Len(r) : s[i] = r[i - Len(q)]
  BY <1>1 DEF s
<1>3. ASSUME NEW m \in In(q) PROVE m \in In(s)
  <2>1. PICK i \in 1..Len(q) : m = q[i]
    BY <1>3 DEF In
  <2>2. i \in 1..Len(s) /\ s[i] = m
    BY <1>1, <1>2, <2>1
  <2> QED
    BY <2>2 DEF In
<1>4. ASSUME NEW m \in In(r) PROVE m \in In(s)
  <2>1. PICK i \in 1..Len(r) : m = r[i]
    BY <1>4 DEF In
  <2>2. Len(q) + i \in Len(q) + 1..Len(q) + Len(r) /\ (Len(q) + i) - Len(q) = i
    BY <1>1, <2>1
  <2>3. Len(q) + i \in 1..Len(s) /\ s[Len(q) + i] = m
    BY <1>1, <1>2, <2>1, <2>2
  <2> QED
    BY <2>3 DEF In
<1>5. ASSUME NEW m \in In(s) PROVE m \in In(q) \cup In(r)
  <2>1. PICK i \in 1..Len(s) : m = s[i]
    BY <1>5 DEF In
  <2>2. CASE i <= Len(q)
    <3>1. i \in 1..Len(q) /\ q[i] = m
      BY <1>1, <1>2, <2>1, <2>2
    <3> QED
      BY <3>1 DEF In
  <2>3. CASE i > Len(q)
    <3>1. i - Len(q) \in 1..Len(r) /\ r[i - Len(q)] = m
      BY <1>1, <1>2, <2>1, <2>3
    <3> QED
      BY <3>1 DEF In
  <2> QED
    BY <1>1, <2>1, <2>2, <2>3
<1> QED
  BY <1>1, <1>3, <1>4, <1>5 DEF s

(* Something new in the channel, and the oldest of it taken out. *)
LEMMA MailSent ==
  ASSUME Types, MailInOrder, NEW m \in Mail, channel' = Append(channel, m),
         \A k \in Mails : MayFollow(k, m)
  PROVE  channel' \in Seq(Mail) /\ Mails' = Mails \cup {m} /\ MailInOrder'
<1>1. channel \in Seq(Mail)
  BY DEF Types
<1>2. /\ channel' \in Seq(Mail) /\ Len(channel') = Len(channel) + 1 /\ Len(channel) \in Nat
      /\ \A i \in 1..Len(channel) : channel'[i] = channel[i]
      /\ channel'[Len(channel) + 1] = m
      /\ In(channel') = In(channel) \cup {m}
  BY <1>1, InAppend
<1>3. MailInOrder'
  <2> SUFFICES ASSUME NEW i \in 1..Len(channel'), NEW k \in 1..Len(channel'), i < k
               PROVE MayFollow(channel'[i], channel'[k])
    BY DEF MailInOrder, MayFollow
  <2>1. i \in 1..Len(channel) /\ channel'[i] = channel[i] /\ channel[i] \in Mails
    BY <1>2 DEF Mails, In
  <2>2. CASE k = Len(channel) + 1
    BY <1>2, <2>1, <2>2
  <2>3. CASE k # Len(channel) + 1
    <3>1. k \in 1..Len(channel) /\ channel'[k] = channel[k]
      BY <1>2, <2>3
    <3> QED
      BY <2>1, <3>1 DEF MailInOrder
  <2> QED
    BY <2>2, <2>3
<1> QED
  BY <1>2, <1>3 DEF Mails

LEMMA MailTaken ==
  ASSUME Types, MailInOrder, channel # <<>>, channel' = Tail(channel)
  PROVE  /\ channel' \in Seq(Mail) /\ MailInOrder'
         /\ Head(channel) \in Mail /\ Mails = Mails' \cup {Head(channel)}
         /\ \A k \in Mails' : MayFollow(Head(channel), k)
<1>1. channel \in Seq(Mail)
  BY DEF Types
<1>2. /\ channel' \in Seq(Mail) /\ Len(channel') = Len(channel) - 1 /\ Len(channel) \in Nat \ {0}
      /\ Head(channel) \in Mail /\ Head(channel) = channel[1]
      /\ \A i \in 1..Len(channel') : i + 1 \in 2..Len(channel) /\ channel'[i] = channel[i + 1]
      /\ In(channel) = {Head(channel)} \cup In(channel')
  BY <1>1, InTail
<1>3. MailInOrder'
  <2> SUFFICES ASSUME NEW i \in 1..Len(channel'), NEW k \in 1..Len(channel'), i < k
               PROVE MayFollow(channel'[i], channel'[k])
    BY DEF MailInOrder, MayFollow
  <2>1. i + 1 \in 1..Len(channel) /\ k + 1 \in 1..Len(channel) /\ i + 1 < k + 1
    BY <1>2
  <2> QED
    BY <1>2, <2>1 DEF MailInOrder
<1>4. ASSUME NEW m \in Mails' PROVE MayFollow(Head(channel), m)
  <2>1. PICK i \in 1..Len(channel') : m = channel'[i]
    BY <1>4 DEF Mails, In
  <2>2. i + 1 \in 1..Len(channel) /\ 1 \in 1..Len(channel) /\ 1 < i + 1
    BY <1>2
  <2> QED
    BY <1>2, <2>1, <2>2 DEF MailInOrder
<1> QED
  BY <1>2, <1>3, <1>4 DEF Mails

LEMMA CallTaken ==
  ASSUME Types, CallsInOrder, inbox # <<>>, inbox' = Tail(inbox)
  PROVE  /\ inbox' \in Seq(Call) /\ CallsInOrder'
         /\ Head(inbox) \in Call /\ Calls = Calls' \cup {Head(inbox)}
         /\ \A k \in Calls' : MayCallAfter(Head(inbox), k)
<1>1. inbox \in Seq(Call)
  BY DEF Types
<1>2. /\ inbox' \in Seq(Call) /\ Len(inbox') = Len(inbox) - 1 /\ Len(inbox) \in Nat \ {0}
      /\ Head(inbox) \in Call /\ Head(inbox) = inbox[1]
      /\ \A i \in 1..Len(inbox') : i + 1 \in 2..Len(inbox) /\ inbox'[i] = inbox[i + 1]
      /\ In(inbox) = {Head(inbox)} \cup In(inbox')
  BY <1>1, InTail
<1>3. CallsInOrder'
  <2> SUFFICES ASSUME NEW i \in 1..Len(inbox'), NEW k \in 1..Len(inbox'), i < k
               PROVE MayCallAfter(inbox'[i], inbox'[k])
    BY DEF CallsInOrder, MayCallAfter
  <2>1. i + 1 \in 1..Len(inbox) /\ k + 1 \in 1..Len(inbox) /\ i + 1 < k + 1
    BY <1>2
  <2> QED
    BY <1>2, <2>1 DEF CallsInOrder
<1>4. ASSUME NEW m \in Calls' PROVE MayCallAfter(Head(inbox), m)
  <2>1. PICK i \in 1..Len(inbox') : m = inbox'[i]
    BY <1>4 DEF Calls, In
  <2>2. i + 1 \in 1..Len(inbox) /\ 1 \in 1..Len(inbox) /\ 1 < i + 1
    BY <1>2
  <2> QED
    BY <1>2, <2>1, <2>2 DEF CallsInOrder
<1> QED
  BY <1>2, <1>3, <1>4 DEF Calls

(* Calls in an order of their own, behind those that wait. *)
LEMMA CallsMade ==
  ASSUME Types, CallsInOrder, NEW r \in Seq(Call), inbox' = inbox \o r,
         \A i, k \in 1..Len(r) : i < k => MayCallAfter(r[i], r[k]),
         \A c \in Calls : \A d \in In(r) : MayCallAfter(c, d)
  PROVE  inbox' \in Seq(Call) /\ Calls' = Calls \cup In(r) /\ CallsInOrder'
<1>1. inbox \in Seq(Call)
  BY DEF Types
<1>2. /\ inbox' \in Seq(Call) /\ Len(inbox') = Len(inbox) + Len(r) /\ Len(inbox) \in Nat /\ Len(r) \in Nat
      /\ \A i \in 1..Len(inbox) : inbox'[i] = inbox[i]
      /\ \A i \in Len(inbox) + 1..Len(inbox) + Len(r) : inbox'[i] = r[i - Len(inbox)]
      /\ In(inbox') = In(inbox) \cup In(r)
  BY <1>1, InConcat
<1>3. CallsInOrder'
  <2> SUFFICES ASSUME NEW i \in 1..Len(inbox'), NEW k \in 1..Len(inbox'), i < k
               PROVE MayCallAfter(inbox'[i], inbox'[k])
    BY DEF CallsInOrder, MayCallAfter
  <2>1. CASE k <= Len(inbox)
    <3>1. i \in 1..Len(inbox) /\ k \in 1..Len(inbox)
      BY <1>2, <2>1
    <3> QED
      BY <1>2, <3>1 DEF CallsInOrder
  <2>2. CASE i <= Len(inbox) /\ k > Len(inbox)
    <3>1. i \in 1..Len(inbox) /\ k \in Len(inbox) + 1..Len(inbox) + Len(r) /\ k - Len(inbox) \in 1..Len(r)
      BY <1>2, <2>2
    <3>2. inbox'[i] \in Calls /\ inbox'[k] \in In(r)
      BY <1>2, <3>1 DEF Calls, In
    <3> QED
      BY <3>2
  <2>3. CASE i > Len(inbox)
    <3>1. /\ i \in Len(inbox) + 1..Len(inbox) + Len(r) /\ i - Len(inbox) \in 1..Len(r)
          /\ k \in Len(inbox) + 1..Len(inbox) + Len(r) /\ k - Len(inbox) \in 1..Len(r)
          /\ i - Len(inbox) < k - Len(inbox)
      BY <1>2, <2>3
    <3> QED
      BY <1>2, <3>1
  <2> QED
    BY <1>2, <2>1, <2>2, <2>3
<1> QED
  BY <1>2, <1>3 DEF Calls

LEMMA CallMade ==
  ASSUME Types, CallsInOrder, NEW c \in Call, inbox' = Append(inbox, c),
         \A k \in Calls : MayCallAfter(k, c)
  PROVE  inbox' \in Seq(Call) /\ Calls' = Calls \cup {c} /\ CallsInOrder'
<1>1. inbox \in Seq(Call)
  BY DEF Types
<1>2. /\ inbox' \in Seq(Call) /\ Len(inbox') = Len(inbox) + 1 /\ Len(inbox) \in Nat
      /\ \A i \in 1..Len(inbox) : inbox'[i] = inbox[i]
      /\ inbox'[Len(inbox) + 1] = c
      /\ In(inbox') = In(inbox) \cup {c}
  BY <1>1, InAppend
<1>3. CallsInOrder'
  <2> SUFFICES ASSUME NEW i \in 1..Len(inbox'), NEW k \in 1..Len(inbox'), i < k
               PROVE MayCallAfter(inbox'[i], inbox'[k])
    BY DEF CallsInOrder, MayCallAfter
  <2>1. i \in 1..Len(inbox) /\ inbox'[i] = inbox[i] /\ inbox[i] \in Calls
    BY <1>2 DEF Calls, In
  <2>2. CASE k = Len(inbox) + 1
    BY <1>2, <2>1, <2>2
  <2>3. CASE k # Len(inbox) + 1
    <3>1. k \in 1..Len(inbox) /\ inbox'[k] = inbox[k]
      BY <1>2, <2>3
    <3> QED
      BY <2>1, <3>1 DEF CallsInOrder
  <2> QED
    BY <2>2, <2>3
<1> QED
  BY <1>2, <1>3 DEF Calls

(* The calls that drop what S has cached: one for each preview, none twice. *)
LEMMA DropCallsOfSet ==
  ASSUME Types, CacheOK, NEW S \in SUBSET PlateId
  PROVE  /\ DropCalls(S) \in Seq(Call)
         /\ In(DropCalls(S)) = {Message("drop", p, preview[p]) : p \in {q \in S : preview[q] # NoJob}}
         /\ \A i, k \in 1..Len(DropCalls(S)) : i < k => MayCallAfter(DropCalls(S)[i], DropCalls(S)[k])
         /\ (\A p \in S : preview[p] = NoJob) => DropCalls(S) = <<>>
<1> DEFINE Q == {q \in S : preview[q] # NoJob}
           M(p) == Message("drop", p, preview[p])
           C == {M(p) : p \in Q}
           g == [p \in Q |-> M(p)]
<1>1. IsFiniteSet(Q)
  <2>1. IsFiniteSet(PlateId)
    BY FS_Interval, OutputAssumption DEF PlateId
  <2> QED
    BY <2>1, FS_Subset
<1>2. IsFiniteSet(C) /\ ExistsBijection(1..Cardinality(C), C) /\ Cardinality(C) \in Nat
  <2>1. g \in [Q -> C] /\ \A p, q \in Q : g[p] = g[q] => p = q
    BY DEF Message
  <2>2. \A c \in C : \E p \in Q : g[p] = c
    OBVIOUS
  <2>3. ExistsBijection(Q, C)
    BY <2>1, <2>2 DEF ExistsBijection, Bijection, Injection, Surjection, IsInjective
  <2> QED
    BY <1>1, <2>3, FS_Bijection, FS_CardinalityType
<1> DEFINE d == SetToSeq(C)
           n == Cardinality(C)
<1>3. d \in [1..n -> C] /\ IsInjective(d)
  <2>1. \E f \in [1..n -> C] : IsInjective(f)
    BY <1>2 DEF ExistsBijection, Bijection, Injection
  <2> QED
    BY <2>1 DEF SetToSeq
<1>4. \A c \in C : \E i \in 1..n : d[i] = c
  <2>1. Cardinality(1..n) = n /\ IsFiniteSet(1..n)
    BY <1>2, FS_Interval
  <2>2. d \in Injection(1..n, C)
    BY <1>3 DEF Injection
  <2> HIDE DEF C, d, n
  <2>3. d \in Surjection(1..n, C)
    <3>1. n = Cardinality(C) /\ IsFiniteSet(C)
      BY <1>2 DEF n
    <3> QED
      BY <2>1, <2>2, <3>1, FS_Injection
  <2> QED
    BY <2>3 DEF Surjection
<1>5. C \subseteq Call
  BY DEF Types, Call, Message, JobOrNone
<1>6. d \in Seq(Call) /\ Len(d) = n /\ DropCalls(S) = d
  <2>1. DropCalls(S) = d
    BY DEF DropCalls
  <2> HIDE DEF d, C
  <2>2. n \in Nat /\ d \in [1..n -> Call]
    BY <1>2, <1>3, <1>5
  <2> HIDE DEF n
  <2> QED
    BY <2>1, <2>2
<1> HIDE DEF d, n
<1>7. \A i \in 1..n : \E p \in Q : d[i] = M(p)
  BY <1>3
<1>8. \A i, k \in 1..n : i < k => MayCallAfter(d[i], d[k])
  <2> SUFFICES ASSUME NEW i \in 1..n, NEW k \in 1..n, i < k PROVE MayCallAfter(d[i], d[k])
    OBVIOUS
  <2>0. i # k
    BY <1>2 DEF n
  <2>1. PICK p \in Q, q \in Q : d[i] = M(p) /\ d[k] = M(q)
    BY <1>7
  <2>2. p # q
    BY <1>3, <2>0, <2>1 DEF IsInjective
  <2>3. preview[p] # preview[q]
    BY <2>2 DEF CacheOK
  <2> QED
    BY <2>1, <2>3 DEF Message, MayCallAfter
<1>9. (\A p \in S : preview[p] = NoJob) => d = <<>>
  <2> HAVE \A p \in S : preview[p] = NoJob
  <2>1. C = {}
    OBVIOUS
  <2>2. n = 0
    BY <2>1, FS_EmptySet DEF n
  <2> QED
    BY <1>6, <2>2
<1>10. In(d) = C
  <2> HIDE DEF C
  <2>1. \A i \in 1..n : d[i] \in C
    BY <1>3
  <2> QED
    BY <1>4, <1>6, <2>1 DEF In
<1> QED
  BY <1>6, <1>8, <1>9, <1>10

-----------------------------------------------------------------------------
(* What an edit changes is nothing of this. *)
LEMMA EditStep ==
  ASSUME OutInv, live' \subseteq PlateId, unsent' \subseteq PlateId \cup {All},
         UNCHANGED <<channel, inbox, phase, total, done, ready, target, preview, handles, busy, preparing>>
  PROVE  Slices' /\ Turns' /\ Previews'
<1>1. Mails' = Mails /\ Calls' = Calls /\ Active' = Active /\ Used' = Used
  BY DEF Mails, Calls, Active, Used
<1>2. (Clicked' <=> Clicked) /\ (Preparing' <=> Preparing)
  BY Zenon DEF Clicked, Preparing
<1>3. Slices'
  BY <1>1 DEF OutInv, Slices, Types, MailInOrder, MayFollow, CallsInOrder, MayCallAfter, JobOK, Numbered, MailOK
<1>4. Turns'
  BY <1>1, <1>2 DEF OutInv, Turns, ClickWaits, PreparesAlone, ReadyAlone, ActiveAlone, OneTold, Told, Called, Resting
<1>5. Previews'
  <2>1. (CallsOK /\ CacheOK)'
    BY <1>1 DEF OutInv, Previews, CallsOK, CacheOK
  <2>2. (LoadsFirst /\ Emptied)'
    BY <1>1, <1>2 DEF OutInv, Previews, LoadsFirst, Emptied, Coming, Told, Called, ToldOf
  <2>3. (LoadedIsNew /\ FinishedIsNew /\ DroppedIsGone /\ Owned)'
    BY <1>1 DEF OutInv, Previews, LoadedIsNew, FinishedIsNew, DroppedIsGone, Owned, Told, Called, ToldOf, CalledFor
  <2> QED
    BY <2>1, <2>2, <2>3 DEF Previews
<1> QED
  BY <1>3, <1>4, <1>5

(* The event of an edit is of no slice. *)
LEMMA EmitEditStep ==
  ASSUME OutInv, EmitEdit
  PROVE  Slices' /\ Turns' /\ Previews'
<1>1. /\ UNCHANGED <<inbox, phase, total, done, ready, target, preview, handles, live>>
      /\ unsent' = {}
  BY DEF EmitEdit, sliceVars, vars, pageVars
<1>2. Calls' = Calls /\ Active' = Active /\ Used' = Used
  BY <1>1 DEF Calls, Active, Used
<1>3. (Clicked' <=> Clicked) /\ (Preparing' <=> Preparing)
  <2>1. UNCHANGED sliceVars /\ UNCHANGED pageVars
    BY Zenon DEF EmitEdit
  <2> QED
    BY <2>1, Zenon DEF Clicked, Preparing, sliceVars, pageVars
<1>4. PICK m \in Mail : m.kind = "Edited" /\ channel' = Append(channel, m)
  BY DEF EmitEdit, Send, Message, Mail, OutInv, Slices, Types, JobOrNone
<1>5. \A k \in Mails : MayFollow(k, m)
  BY <1>4 DEF MayFollow, Story, Plates, Outcome, Terminal
<1>6. channel' \in Seq(Mail) /\ Mails' = Mails \cup {m} /\ MailInOrder'
  BY <1>4, <1>5, MailSent DEF OutInv, Slices
<1>7. /\ \A K \in SUBSET (Story \cup {"Loaded"}) : Told(K)' <=> Told(K)
      /\ \A j : ToldOf("PlateFinished", j)' <=> ToldOf("PlateFinished", j)
      /\ \A j : ToldOf("Loaded", j)' <=> ToldOf("Loaded", j)
  BY <1>4, <1>6 DEF Told, ToldOf, Story, Plates, Outcome, Terminal
<1>8. /\ Told(Story)' <=> Told(Story)
      /\ Told(Plates)' <=> Told(Plates)
      /\ Told(Outcome)' <=> Told(Outcome)
      /\ Told({"PlateStarted"})' <=> Told({"PlateStarted"})
      /\ Told({"PlateFinished"})' <=> Told({"PlateFinished"})
      /\ Told({"Loaded"})' <=> Told({"Loaded"})
  BY <1>7 DEF Story, Plates, Outcome
<1>9. Slices'
  <2>1. (Types /\ CallsInOrder /\ JobOK /\ Numbered)'
    BY <1>1, <1>2, <1>6 DEF OutInv, Slices, Types, CallsInOrder, MayCallAfter, JobOK, Numbered
  <2>2. MailOK'
    BY <1>1, <1>4, <1>6 DEF OutInv, Slices, MailOK, Plates
  <2> QED
    BY <1>6, <2>1, <2>2 DEF Slices
<1>10. Turns'
  <2>1. (ClickWaits /\ PreparesAlone /\ ReadyAlone)'
    BY <1>1, <1>2, <1>3, <1>8 DEF OutInv, Turns, ClickWaits, PreparesAlone, ReadyAlone, Called, Resting
  <2>2. ActiveAlone' /\ OneTold'
    BY <1>1, <1>2, <1>3, <1>4, <1>6, <1>8 DEF OutInv, Turns, ActiveAlone, OneTold, Plates
  <2> QED
    BY <2>1, <2>2 DEF Turns
<1>11. Previews'
  <2>1. (CallsOK /\ CacheOK)'
    BY <1>1, <1>2 DEF OutInv, Previews, CallsOK, CacheOK
  <2>2. (LoadsFirst /\ Emptied)'
    BY <1>1, <1>2, <1>3, <1>7, <1>8 DEF OutInv, Previews, LoadsFirst, Emptied, Coming, Called
  <2>3. (LoadedIsNew /\ FinishedIsNew)'
    BY <1>1, <1>2, <1>4, <1>6, <1>7 DEF OutInv, Previews, LoadedIsNew, FinishedIsNew
  <2>4. (DroppedIsGone /\ Owned)'
    BY <1>1, <1>2, <1>7 DEF OutInv, Previews, DroppedIsGone, Owned, CalledFor
  <2> QED
    BY <2>1, <2>2, <2>3, <2>4 DEF Previews
<1> QED
  BY <1>9, <1>10, <1>11

(* A click puts one call in the queue, behind everything that waits. *)
LEMMA ClickStep ==
  ASSUME OutInv, ClickSlice
  PROVE  Slices' /\ Turns' /\ Previews'
<1>1. UNCHANGED <<channel, phase, total, done, ready, target, preview, handles, live, unsent>>
  BY DEF ClickSlice, sliceVars, editVars, vars
<1>2. Mails' = Mails /\ Active' = Active /\ Used' = Used
  BY <1>1 DEF Mails, Active, Used
<1>3. ~Clicked /\ Clicked' /\ (Preparing' <=> Preparing)
  <2>1. UNCHANGED sliceVars /\ ~busy /\ busy' = TRUE
    BY Zenon DEF ClickSlice
  <2> QED
    BY <2>1, Zenon DEF Clicked, Preparing, sliceVars
<1>4. PICK c \in Call : c.kind = "slice" /\ inbox' = Append(inbox, c)
  BY DEF ClickSlice, Message, Call, JobOrNone
<1>5. Resting /\ ~Preparing /\ ~Called("slice") /\ ~Told(Story)
  BY <1>3 DEF OutInv, Turns, ClickWaits, PreparesAlone, ReadyAlone, ActiveAlone, OneTold, Resting, Active
<1>6. \A k \in Calls : MayCallAfter(k, c)
  BY <1>4, <1>5 DEF MayCallAfter, Called
<1>7. inbox' \in Seq(Call) /\ Calls' = Calls \cup {c} /\ CallsInOrder'
  BY <1>4, <1>6, CallMade DEF OutInv, Slices
<1>8. /\ \A j : CalledFor("drop", j)' <=> CalledFor("drop", j)
      /\ \A j : CalledFor("load", j)' <=> CalledFor("load", j)
      /\ Called("load")' <=> Called("load")
  BY <1>4, <1>7 DEF Called, CalledFor
<1>9. Slices'
  BY <1>1, <1>2, <1>7 DEF OutInv, Slices, Types, MailInOrder, MayFollow, JobOK, Numbered, MailOK
<1>10. Turns'
  <2>1. Resting'
    BY <1>1, <1>2, <1>5 DEF Resting, Told
  <2> QED
    BY <1>1, <1>2, <1>3, <1>5, <2>1 DEF Turns, ClickWaits, PreparesAlone, ReadyAlone, ActiveAlone, OneTold, Told, Resting, Story
<1>11. Previews'
  <2>1. (CallsOK /\ CacheOK)'
    BY <1>1, <1>4, <1>7 DEF OutInv, Previews, CallsOK, CacheOK
  <2>2. (LoadsFirst /\ Emptied)'
    BY <1>1, <1>2, <1>3, <1>8 DEF OutInv, Previews, LoadsFirst, Emptied, Coming, Told, ToldOf
  <2>3. (LoadedIsNew /\ FinishedIsNew)'
    BY <1>1, <1>2, <1>4, <1>7 DEF OutInv, Previews, LoadedIsNew, FinishedIsNew, ToldOf
  <2>4. (DroppedIsGone /\ Owned)'
    BY <1>1, <1>2, <1>4, <1>7, <1>8 DEF OutInv, Previews, DroppedIsGone, Owned, ToldOf
  <2> QED
    BY <2>1, <2>2, <2>3, <2>4 DEF Previews
<1> QED
  BY <1>9, <1>10, <1>11

(* The slice is being prepared: it was the one that waited. *)
LEMMA RunSliceStep ==
  ASSUME OutInv, RunSlice
  PROVE  Slices' /\ Turns' /\ Previews'
<1>1. UNCHANGED <<channel, phase, total, done, ready, target, preview, handles, live, unsent>>
  BY DEF RunSlice, pageVars, editVars, vars
<1>2. Mails' = Mails /\ Active' = Active /\ Used' = Used
  BY <1>1 DEF Mails, Active, Used
<1>3. (Clicked' <=> Clicked) /\ Preparing'
  <2>1. UNCHANGED pageVars /\ preparing' = TRUE
    BY Zenon DEF RunSlice
  <2> QED
    BY <2>1, Zenon DEF Clicked, Preparing, pageVars
<1>4. inbox # <<>> /\ inbox' = Tail(inbox) /\ Head(inbox).kind = "slice"
  BY DEF RunSlice, Run
<1>5. /\ inbox' \in Seq(Call) /\ CallsInOrder'
      /\ Head(inbox) \in Call /\ Calls = Calls' \cup {Head(inbox)}
      /\ \A k \in Calls' : MayCallAfter(Head(inbox), k)
  BY <1>4, CallTaken DEF OutInv, Slices
<1>6. Called("slice") /\ ~Called("slice")' /\ ~Called("load")'
  BY <1>4, <1>5 DEF Called, MayCallAfter
<1>7. Clicked /\ Resting
  BY <1>6 DEF OutInv, Turns, ClickWaits
<1>8. \A j : CalledFor("drop", j)' <=> CalledFor("drop", j)
  BY <1>4, <1>5 DEF CalledFor
<1>9. Slices'
  BY <1>1, <1>2, <1>5 DEF OutInv, Slices, Types, MailInOrder, MayFollow, JobOK, Numbered, MailOK
<1>10. Turns'
  <2>1. Resting'
    BY <1>1, <1>2, <1>7 DEF Resting, Told
  <2> QED
    BY <1>1, <1>2, <1>3, <1>6, <1>7, <2>1 DEF OutInv, Turns, ClickWaits, PreparesAlone, ReadyAlone, ActiveAlone, OneTold, Told, Resting
<1>11. Previews'
  <2>1. (CallsOK /\ CacheOK)'
    BY <1>1, <1>5 DEF OutInv, Previews, CallsOK, CacheOK
  <2>2. (LoadsFirst /\ Emptied)'
    BY <1>1, <1>2, <1>6 DEF OutInv, Previews, LoadsFirst, Emptied, Told, ToldOf
  <2>3. (LoadedIsNew /\ FinishedIsNew)'
    BY <1>1, <1>2, <1>5 DEF OutInv, Previews, LoadedIsNew, FinishedIsNew, ToldOf
  <2>4. (DroppedIsGone /\ Owned)'
    BY <1>1, <1>2, <1>5, <1>8 DEF OutInv, Previews, DroppedIsGone, Owned, ToldOf, CalledFor
  <2> QED
    BY <2>1, <2>2, <2>3, <2>4 DEF Previews
<1> QED
  BY <1>9, <1>10, <1>11

(* What the channel says is the same for everything but a loaded preview. *)
LEMMA RunLoadStep ==
  ASSUME OutInv, RunLoad
  PROVE  Slices' /\ Turns' /\ Previews'
<1> DEFINE e == Head(inbox)
           m == Message("Loaded", e.plate, e.job)
<1>1. UNCHANGED <<phase, total, done, ready, target, preview, live, unsent>>
  BY DEF RunLoad, pageVars, sliceVars, editVars, vars
<1>2. Active' = Active /\ Used' = Used
  BY <1>1 DEF Active, Used
<1>3. (Clicked' <=> Clicked) /\ (Preparing' <=> Preparing)
  <2>1. UNCHANGED pageVars /\ UNCHANGED sliceVars
    BY Zenon DEF RunLoad
  <2> QED
    BY <2>1, Zenon DEF Clicked, Preparing, pageVars, sliceVars
<1>4. inbox # <<>> /\ inbox' = Tail(inbox) /\ e.kind = "load"
  BY DEF RunLoad, Run
<1>5. /\ inbox' \in Seq(Call) /\ CallsInOrder'
      /\ e \in Call /\ Calls = Calls' \cup {e}
      /\ \A k \in Calls' : MayCallAfter(e, k)
  BY <1>4, CallTaken DEF OutInv, Slices
<1>6. Called("load") /\ ~Called("load")' /\ (Called("slice")' <=> Called("slice"))
  BY <1>4, <1>5 DEF Called, MayCallAfter
<1>7. ~Coming /\ ~Told({"Loaded"}) /\ ~Told(Plates)
  BY <1>6 DEF OutInv, Previews, LoadsFirst, Coming
<1>8. /\ e.job \in Job /\ e.plate = target[e.job] /\ done[e.job] = 1
      /\ phase[e.job] # "idle" /\ preview[e.plate] = NoJob /\ e.plate \in PlateId
  BY <1>4, <1>5 DEF OutInv, Previews, Slices, Types, CallsOK, LoadedIsNew, JobOK
<1>9. \A j : CalledFor("drop", j)' <=> CalledFor("drop", j)
  BY <1>4, <1>5 DEF CalledFor
<1>10. \A j \in Job : ~(phase[j] = "slicing" \/ ToldOf("PlateFinished", j))
  BY <1>7 DEF OutInv, Slices, JobOK, Coming, Active, ToldOf, Told, Plates
<1>11. CASE handles' = handles \cup {e.job} /\ Send("Loaded", e.plate, e.job)
  <2>1. m \in Mail /\ channel' = Append(channel, m) /\ m.kind = "Loaded" /\ m.plate = e.plate /\ m.job = e.job
    BY <1>8, <1>11 DEF Send, Message, Mail, JobOrNone
  <2> HIDE DEF m
  <2>2. \A k \in Mails : MayFollow(k, m)
    BY <1>7, <2>1 DEF MayFollow, Told, Story, Plates, Outcome, Terminal
  <2>3. channel' \in Seq(Mail) /\ Mails' = Mails \cup {m} /\ MailInOrder'
    BY <2>1, <2>2, MailSent DEF OutInv, Slices
  <2>4. /\ \A K \in SUBSET Story : Told(K)' <=> Told(K)
        /\ \A j : ToldOf("PlateFinished", j)' <=> ToldOf("PlateFinished", j)
        /\ \A j : ToldOf("Loaded", j)' <=> j = e.job
    BY <1>7, <2>1, <2>3 DEF Told, ToldOf, Story, Plates, Outcome, Terminal
  <2>5. /\ Told(Story)' <=> Told(Story)
        /\ Told(Plates)' <=> Told(Plates)
        /\ Told(Outcome)' <=> Told(Outcome)
        /\ Told({"PlateFinished"})' <=> Told({"PlateFinished"})
    BY <2>4 DEF Story, Plates, Outcome
  <2>6. Slices'
    <3>1. (Types /\ JobOK /\ Numbered)'
      BY <1>1, <1>2, <1>5, <1>8, <1>11, <2>3 DEF OutInv, Slices, Types, JobOK, Numbered
    <3>2. MailOK'
      BY <1>1, <1>8, <2>1, <2>3 DEF OutInv, Slices, MailOK, Plates
    <3> QED
      BY <1>5, <2>3, <3>1, <3>2 DEF Slices
  <2>7. Turns'
    <3>1. (ClickWaits /\ PreparesAlone /\ ReadyAlone)'
      BY <1>1, <1>2, <1>3, <1>6, <2>5 DEF OutInv, Turns, ClickWaits, PreparesAlone, ReadyAlone, Resting
    <3>2. ActiveAlone' /\ OneTold'
      BY <1>1, <1>2, <1>3, <2>1, <2>3, <2>5 DEF OutInv, Turns, ActiveAlone, OneTold, Plates
    <3> QED
      BY <3>1, <3>2 DEF Turns
  <2>8. Previews'
    <3>1. (CallsOK /\ CacheOK)'
      BY <1>1, <1>5 DEF OutInv, Previews, CallsOK, CacheOK
    <3>2. LoadsFirst' /\ Emptied'
      BY <1>1, <1>6, <1>10, <2>4 DEF LoadsFirst, Emptied
    <3>3. LoadedIsNew'
      BY <1>1, <1>5, <1>8, <2>1, <2>3 DEF OutInv, Previews, LoadedIsNew
    <3>4. FinishedIsNew'
      BY <1>7, <2>1, <2>3 DEF FinishedIsNew, Told, Plates
    <3>5. DroppedIsGone'
      BY <1>1, <1>4, <1>5, <1>6, <2>4 DEF OutInv, Previews, DroppedIsGone, CalledFor, Called
    <3>6. Owned'
      BY <1>1, <1>7, <1>9, <1>11, <2>4 DEF OutInv, Previews, Owned, ToldOf, Told
    <3> QED
      BY <3>1, <3>2, <3>3, <3>4, <3>5, <3>6 DEF Previews
  <2> QED
    BY <2>6, <2>7, <2>8
<1>12. CASE UNCHANGED <<handles, channel>>
  <2>1. Mails' = Mails /\ handles' = handles
    BY <1>12 DEF Mails
  <2>2. Slices'
    BY <1>1, <1>2, <1>5, <1>12, <2>1 DEF OutInv, Slices, Types, MailInOrder, MayFollow, JobOK, Numbered, MailOK
  <2>3. Turns'
    BY <1>1, <1>2, <1>3, <1>6, <2>1 DEF OutInv, Turns, ClickWaits, PreparesAlone, ReadyAlone, ActiveAlone, OneTold, Told, Resting
  <2>4. Previews'
    <3>1. (CallsOK /\ CacheOK)'
      BY <1>1, <1>5 DEF OutInv, Previews, CallsOK, CacheOK
    <3>2. LoadsFirst' /\ Emptied'
      BY <1>1, <1>6, <2>1 DEF OutInv, Previews, LoadsFirst, Emptied, Told, ToldOf
    <3>3. LoadedIsNew' /\ FinishedIsNew'
      BY <1>1, <1>5, <2>1 DEF OutInv, Previews, LoadedIsNew, FinishedIsNew, ToldOf
    <3>4. DroppedIsGone' /\ Owned'
      BY <1>1, <1>5, <1>9, <2>1 DEF OutInv, Previews, DroppedIsGone, Owned, CalledFor, ToldOf
    <3> QED
      BY <3>1, <3>2, <3>3, <3>4 DEF Previews
  <2> QED
    BY <2>2, <2>3, <2>4
<1> QED
  BY <1>11, <1>12 DEF RunLoad

(* A preview that is dropped was the one call's to drop. *)
LEMMA RunDropStep ==
  ASSUME OutInv, RunDrop
  PROVE  Slices' /\ Turns' /\ Previews'
<1> DEFINE e == Head(inbox)
<1>1. UNCHANGED <<channel, phase, total, done, ready, target, preview, live, unsent>>
  BY DEF RunDrop, pageVars, sliceVars, editVars, vars
<1>2. Mails' = Mails /\ Active' = Active /\ Used' = Used
  BY <1>1 DEF Mails, Active, Used
<1>3. (Clicked' <=> Clicked) /\ (Preparing' <=> Preparing)
  <2>1. UNCHANGED pageVars /\ UNCHANGED sliceVars
    BY Zenon DEF RunDrop
  <2> QED
    BY <2>1, Zenon DEF Clicked, Preparing, pageVars, sliceVars
<1>4. inbox # <<>> /\ inbox' = Tail(inbox) /\ e.kind = "drop" /\ handles' = handles \ {e.job}
  BY DEF RunDrop, Run
<1>5. /\ inbox' \in Seq(Call) /\ CallsInOrder'
      /\ e \in Call /\ Calls = Calls' \cup {e}
      /\ \A k \in Calls' : MayCallAfter(e, k)
  BY <1>4, CallTaken DEF OutInv, Slices
<1>6. /\ (Called("load")' <=> Called("load")) /\ (Called("slice")' <=> Called("slice"))
      /\ \A j : CalledFor("load", j)' <=> CalledFor("load", j)
      /\ \A j : CalledFor("drop", j)' <=> CalledFor("drop", j) /\ j # e.job
  BY <1>4, <1>5 DEF Called, CalledFor, MayCallAfter
<1>7. ~ToldOf("Loaded", e.job) /\ \A p \in PlateId : preview[p] # e.job
  BY <1>4, <1>5 DEF OutInv, Previews, DroppedIsGone
<1>8. Slices'
  BY <1>1, <1>2, <1>4, <1>5 DEF OutInv, Slices, Types, MailInOrder, MayFollow, JobOK, Numbered, MailOK
<1>9. Turns'
  BY <1>1, <1>2, <1>3, <1>6 DEF OutInv, Turns, ClickWaits, PreparesAlone, ReadyAlone, ActiveAlone, OneTold, Told, Resting
<1>10. Previews'
  <2>1. (CallsOK /\ CacheOK)'
    BY <1>1, <1>5 DEF OutInv, Previews, CallsOK, CacheOK
  <2>2. (LoadsFirst /\ Emptied)'
    BY <1>1, <1>2, <1>3, <1>6 DEF OutInv, Previews, LoadsFirst, Emptied, Coming, Told, ToldOf
  <2>3. (LoadedIsNew /\ FinishedIsNew)'
    BY <1>1, <1>2, <1>5 DEF OutInv, Previews, LoadedIsNew, FinishedIsNew, ToldOf
  <2>4. DroppedIsGone'
    BY <1>1, <1>2, <1>5, <1>6 DEF OutInv, Previews, DroppedIsGone, ToldOf
  <2>5. Owned'
    BY <1>1, <1>2, <1>4, <1>6, <1>7 DEF OutInv, Previews, Owned, ToldOf
  <2> QED
    BY <2>1, <2>2, <2>3, <2>4, <2>5 DEF Previews
<1> QED
  BY <1>8, <1>9, <1>10

(* The last word on a slice: nothing of it was told but what it began with. *)
LEMMA LastWord ==
  ASSUME OutInv, NEW m \in Mail, m.kind \in Outcome, channel' = Append(channel, m),
         ~Told(Outcome)
  PROVE  /\ channel' \in Seq(Mail) /\ Mails' = Mails \cup {m} /\ MailInOrder'
         /\ Told(Plates)' <=> Told(Plates)
         /\ Told({"PlateStarted"})' <=> Told({"PlateStarted"})
         /\ Told({"PlateFinished"})' <=> Told({"PlateFinished"})
         /\ Told({"Loaded"})' <=> Told({"Loaded"})
         /\ \A j : ToldOf("PlateFinished", j)' <=> ToldOf("PlateFinished", j)
         /\ \A j : ToldOf("Loaded", j)' <=> ToldOf("Loaded", j)
<1>1. m.kind \notin Plates \cup {"Loaded"}
  BY DEF Outcome, Terminal, Plates
<1>2. \A k \in Mails : MayFollow(k, m)
  BY <1>1 DEF MayFollow, Told, Plates
<1>3. channel' \in Seq(Mail) /\ Mails' = Mails \cup {m} /\ MailInOrder'
  BY <1>2, MailSent DEF OutInv, Slices
<1> QED
  BY <1>1, <1>3 DEF Told, ToldOf, Plates

LEMMA RejectStep ==
  ASSUME OutInv, RejectSlice
  PROVE  Slices' /\ Turns' /\ Previews'
<1> DEFINE m == Message("Rejected", All, NoJob)
<1>1. UNCHANGED <<inbox, phase, total, done, ready, target, preview, handles, live, unsent>>
  BY DEF RejectSlice, pageVars, editVars, vars
<1>2. Calls' = Calls /\ Active' = Active /\ Used' = Used
  BY <1>1 DEF Calls, Active, Used
<1>3. (Clicked' <=> Clicked) /\ Preparing /\ ~Preparing'
  <2>1. UNCHANGED pageVars /\ preparing /\ preparing' = FALSE
    BY Zenon DEF RejectSlice
  <2> QED
    BY <2>1, Zenon DEF Clicked, Preparing, pageVars
<1>4. Clicked /\ Resting /\ ~Called("slice") /\ Coming
  BY <1>3 DEF OutInv, Turns, PreparesAlone, ClickWaits, Coming
<1>5. m \in Mail /\ m.kind \in Outcome /\ channel' = Append(channel, m)
  BY DEF RejectSlice, Send, Message, Mail, JobOrNone, Outcome, Story
<1> HIDE DEF m
<1>6. ~Told(Story) /\ ~Told(Outcome) /\ ~Told(Plates)
  BY <1>4 DEF Resting, Told, Story
<1>7. /\ channel' \in Seq(Mail) /\ Mails' = Mails \cup {m} /\ MailInOrder'
      /\ Told(Plates)' <=> Told(Plates)
      /\ Told({"PlateStarted"})' <=> Told({"PlateStarted"})
      /\ Told({"Loaded"})' <=> Told({"Loaded"})
      /\ \A j : ToldOf("PlateFinished", j)' <=> ToldOf("PlateFinished", j)
      /\ \A j : ToldOf("Loaded", j)' <=> ToldOf("Loaded", j)
  BY <1>5, <1>6, LastWord
<1>8. m.kind \notin Plates \cup {"Loaded"}
  BY <1>5 DEF Outcome, Terminal, Plates
<1>9. Slices'
  <2>1. (Types /\ CallsInOrder /\ JobOK /\ Numbered)'
    BY <1>1, <1>2, <1>7 DEF OutInv, Slices, Types, CallsInOrder, MayCallAfter, JobOK, Numbered
  <2>2. MailOK'
    BY <1>1, <1>7, <1>8 DEF OutInv, Slices, MailOK, Plates
  <2> QED
    BY <1>7, <2>1, <2>2 DEF Slices
<1>10. Turns'
  <2>1. ~Called("slice")' /\ ready' = {} /\ Active' = {}
    BY <1>1, <1>2, <1>4 DEF Called, Resting
  <2>2. OneTold'
    BY <1>3, <1>4, <1>6, <1>7, <1>8 DEF OneTold, Told
  <2> QED
    BY <1>3, <2>1, <2>2 DEF Turns, ClickWaits, PreparesAlone, ReadyAlone, ActiveAlone
<1>11. Previews'
  <2>1. (CallsOK /\ CacheOK)'
    BY <1>1, <1>2 DEF OutInv, Previews, CallsOK, CacheOK
  <2>2. (LoadsFirst /\ Emptied)'
    <3>1. ~Called("load")'
      BY <1>2, <1>4 DEF OutInv, Previews, LoadsFirst, Called
    <3>2. Emptied'
      BY <1>1, <1>7 DEF OutInv, Previews, Emptied
    <3> QED
      BY <3>1, <3>2 DEF LoadsFirst
  <2>3. (LoadedIsNew /\ FinishedIsNew)'
    BY <1>1, <1>2, <1>7, <1>8 DEF OutInv, Previews, LoadedIsNew, FinishedIsNew, Plates
  <2>4. (DroppedIsGone /\ Owned)'
    BY <1>1, <1>2, <1>7 DEF OutInv, Previews, DroppedIsGone, Owned, CalledFor
  <2> QED
    BY <2>1, <2>2, <2>3, <2>4 DEF Previews
<1> QED
  BY <1>9, <1>10, <1>11

(* The job a plate is read for is a new one: nothing knows it yet. *)
LEMMA ReadPlateStep ==
  ASSUME OutInv, NEW j \in Job, ReadPlate(j)
  PROVE  Slices' /\ Turns' /\ Previews'
<1>1. UNCHANGED <<inbox, channel, phase, total, done, preview, handles, live, unsent>> /\ ready' = ready \cup {j}
  BY DEF ReadPlate, pageVars, editVars, vars
<1>2. Mails' = Mails /\ Calls' = Calls /\ Active' = Active /\ Used' = Used \cup {j}
  BY <1>1 DEF Mails, Calls, Active, Used
<1>3. (Clicked' <=> Clicked) /\ Preparing /\ ~Preparing'
  <2>1. UNCHANGED pageVars /\ preparing /\ preparing' = FALSE
    BY Zenon DEF ReadPlate
  <2> QED
    BY <2>1, Zenon DEF Clicked, Preparing, pageVars
<1>4. Clicked /\ Resting /\ ~Called("slice") /\ Coming
  BY <1>3 DEF OutInv, Turns, PreparesAlone, ClickWaits, Coming
<1>5. PICK p \in PlateId : target' = [target EXCEPT ![j] = p]
  BY DEF ReadPlate, OutInv, Slices, Types
<1>6. /\ j \notin Used /\ Numbered'
  <2>1. PICK n \in Nat : Used = 1..n
    BY DEF OutInv, Slices, Numbered
  <2>2. Cardinality(1..n) = n
    BY FS_Interval, <2>1
  <2>3. j = n + 1
    BY <2>1, <2>2 DEF ReadPlate
  <2>4. Used' = 1..n + 1 /\ n + 1 \in Nat /\ j \notin 1..n
    BY <1>2, <2>1, <2>3
  <2> QED
    BY <2>1, <2>4 DEF Numbered
<1>7. phase[j] = "idle" /\ done[j] = 0 /\ j \notin Active
  BY <1>6 DEF Used, OutInv, Slices, JobOK, Active
<1>8. target' \in [Job -> PlateId] /\ \A k \in Job : k # j => target'[k] = target[k]
  BY <1>5 DEF OutInv, Slices, Types
<1>9. ready' = {j}
  BY <1>1, <1>4 DEF Resting
<1>10. Slices'
  <2>1. (Types /\ MailInOrder /\ CallsInOrder)'
    BY <1>1, <1>2, <1>8 DEF OutInv, Slices, Types, MailInOrder, MayFollow, CallsInOrder, MayCallAfter
  <2>2. JobOK'
    BY <1>1, <1>2, <1>7, <1>9 DEF OutInv, Slices, JobOK
  <2>3. MailOK'
    BY <1>1, <1>2, <1>7, <1>8 DEF OutInv, Slices, MailOK
  <2> QED
    BY <1>6, <2>1, <2>2, <2>3 DEF Slices
<1>11. Turns'
  <2>1. ~Called("slice")' /\ Active' = {} /\ ~Told(Story)'
    BY <1>2, <1>4 DEF Called, Resting, Told
  <2>2. OneTold'
    BY <1>2, <1>3 DEF OneTold, Told, OutInv, Turns
  <2> QED
    BY <1>3, <1>4, <1>9, <2>1, <2>2 DEF Turns, ClickWaits, PreparesAlone, ReadyAlone, ActiveAlone
<1>12. Previews'
  <2>1. (CallsOK /\ CacheOK)'
    BY <1>1, <1>2, <1>7, <1>8 DEF OutInv, Previews, CallsOK, CacheOK
  <2>2. LoadsFirst'
    BY <1>2, <1>4 DEF OutInv, Previews, LoadsFirst, Called
  <2>3. Emptied'
    <3>1. \A k \in Job : phase[k] = "slicing" \/ ToldOf("PlateFinished", k) => k # j
      BY <1>7 DEF OutInv, Slices, MailOK, ToldOf, Plates
    <3> QED
      BY <1>1, <1>2, <1>8, <3>1 DEF OutInv, Previews, Emptied, Told, ToldOf
  <2>4. (LoadedIsNew /\ FinishedIsNew)'
    BY <1>1, <1>2 DEF OutInv, Previews, LoadedIsNew, FinishedIsNew, ToldOf
  <2>5. (DroppedIsGone /\ Owned)'
    BY <1>1, <1>2 DEF OutInv, Previews, DroppedIsGone, Owned, CalledFor, ToldOf
  <2> QED
    BY <2>1, <2>2, <2>3, <2>4, <2>5 DEF Previews
<1> QED
  BY <1>10, <1>11, <1>12

(* The prepared job becomes the active one. *)
LEMMA StartReadyStep ==
  ASSUME OutInv, NEW j \in Job, StartReady(j)
  PROVE  Slices' /\ Turns' /\ Previews'
<1>1. /\ UNCHANGED <<inbox, channel, done, target, preview, handles, live, unsent>>
      /\ j \in ready /\ ready' = ready \ {j} /\ phase[j] = "idle"
      /\ phase' = [phase EXCEPT ![j] = "between"] /\ total' = [total EXCEPT ![j] = 1]
  BY DEF StartReady, Accept, Shift, pageVars, editVars
<1>2. (Clicked' <=> Clicked) /\ (Preparing' <=> Preparing)
  <2>1. UNCHANGED pageVars /\ UNCHANGED preparing
    BY Zenon DEF StartReady
  <2> QED
    BY <2>1, Zenon DEF Clicked, Preparing, pageVars
<1>3. Clicked /\ ready = {j} /\ Active = {} /\ ~Told(Story) /\ Coming
  BY <1>1 DEF OutInv, Turns, ReadyAlone, Coming
<1>4. /\ phase \in [Job -> Phase] /\ total \in [Job -> Nat]
      /\ phase'[j] = "between" /\ total'[j] = 1
      /\ \A k \in Job : k # j => phase'[k] = phase[k] /\ total'[k] = total[k]
  BY <1>1 DEF OutInv, TypeOK
<1>5. Mails' = Mails /\ Calls' = Calls /\ Active' = {j} /\ Used' = Used
  BY <1>1, <1>3, <1>4 DEF Mails, Calls, Active, Used
<1>6. ~Called("slice") /\ ~Called("load") /\ ~Preparing /\ done[j] = 0
  BY <1>1, <1>3 DEF OutInv, Turns, Slices, JobOK, Previews, PreparesAlone, ClickWaits, LoadsFirst, Resting
<1>7. Slices'
  <2>1. (Types /\ MailInOrder /\ CallsInOrder /\ Numbered)'
    BY <1>1, <1>5 DEF OutInv, Slices, Types, MailInOrder, MayFollow, CallsInOrder, MayCallAfter, Numbered
  <2>2. JobOK'
    BY <1>1, <1>3, <1>4, <1>5, <1>6 DEF OutInv, Slices, JobOK
  <2>3. MailOK'
    BY <1>1, <1>4, <1>5 DEF OutInv, Slices, MailOK
  <2> QED
    BY <2>1, <2>2, <2>3 DEF Slices
<1>8. Turns'
  <2>1. ~Called("slice")' /\ ~Told(Story)' /\ ~Preparing' /\ Clicked' /\ ready' = {}
    BY <1>1, <1>2, <1>3, <1>5, <1>6 DEF Called, Told
  <2>2. (ClickWaits /\ PreparesAlone /\ ReadyAlone)'
    BY <2>1 DEF ClickWaits, PreparesAlone, ReadyAlone
  <2>3. ~Told(Outcome)' /\ ~Told({"PlateFinished"})' /\ \A m \in Mails' : m.kind \notin Plates
    BY <2>1 DEF Told, Story, Plates
  <2>4. ActiveAlone'
    BY <1>5, <2>1, <2>3 DEF ActiveAlone
  <2>5. OneTold'
    BY <2>1, <2>3 DEF OneTold
  <2> QED
    BY <2>2, <2>4, <2>5 DEF Turns
<1>9. Previews'
  <2>1. (CallsOK /\ CacheOK)'
    BY <1>1, <1>5 DEF OutInv, Previews, CallsOK, CacheOK
  <2>2. LoadsFirst' /\ Emptied'
    BY <1>1, <1>3, <1>4, <1>5, <1>6 DEF OutInv, Previews, LoadsFirst, Emptied, Called, Told, ToldOf
  <2>3. (LoadedIsNew /\ FinishedIsNew)'
    BY <1>1, <1>5 DEF OutInv, Previews, LoadedIsNew, FinishedIsNew, ToldOf
  <2>4. (DroppedIsGone /\ Owned)'
    BY <1>1, <1>5 DEF OutInv, Previews, DroppedIsGone, Owned, CalledFor, ToldOf
  <2> QED
    BY <2>1, <2>2, <2>3, <2>4 DEF Previews
<1> QED
  BY <1>7, <1>8, <1>9

(* What the page hears of a step of the worker is what the job just said. *)
LEMMA WorkSays ==
  ASSUME OutInv, NEW j \in Job, NEW kind \in Kind, NEW plate \in Nat, Hear(j, kind, plate),
         kind \in Story, Send(log'[j][Len(log'[j])].kind, target[j], j)
  PROVE  \E m \in Mail : /\ m.kind = kind /\ m.plate = target[j] /\ m.job = j
                         /\ channel' = Append(channel, m)
<1>1. log'[j][Len(log'[j])].kind = kind
  BY HearProperties DEF OutInv
<1>2. Message(kind, target[j], j) \in Mail
  BY DEF Message, Mail, JobOrNone, OutInv, Slices, Types
<1> QED
  BY <1>1, <1>2 DEF Send, Message

LEMMA WorkLeaves ==
  ASSUME NEW j, Work(j)
  PROVE  /\ UNCHANGED <<inbox, ready, target, preview, handles, live, unsent>>
         /\ Calls' = Calls /\ (Clicked' <=> Clicked) /\ (Preparing' <=> Preparing)
<1>1. UNCHANGED <<inbox, ready, target, preview, handles, live, unsent>>
  BY DEF Work, pageVars, editVars
<1>2. UNCHANGED pageVars /\ UNCHANGED preparing
  BY Zenon DEF Work
<1>3. (Clicked' <=> Clicked) /\ (Preparing' <=> Preparing)
  BY <1>2, Zenon DEF Clicked, Preparing, pageVars
<1> QED
  BY <1>1, <1>3 DEF Calls

(* While a job is active it is the page's slice, and nothing else is. *)
LEMMA WhileActive ==
  ASSUME OutInv, NEW j \in Active
  PROVE  /\ Clicked /\ ~Preparing /\ ready = {} /\ Active = {j} /\ ~Called("slice")
         /\ ~Told(Outcome) /\ total[j] = 1 /\ done[j] \in {0, 1} /\ phase[j] # "idle"
<1>1. Clicked /\ Active = {j} /\ ~Told(Outcome)
  BY DEF OutInv, Turns, ActiveAlone
<1>2. ~Preparing /\ ready = {} /\ ~Called("slice")
  BY <1>1 DEF OutInv, Turns, PreparesAlone, ReadyAlone, ClickWaits, Resting
<1> QED
  BY <1>1, <1>2 DEF OutInv, Slices, JobOK, Active

LEMMA StartPlateStep ==
  ASSUME OutInv, NEW j \in Job, Work(j), StartPlate(j)
  PROVE  Slices' /\ Turns' /\ Previews'
<1>1. /\ UNCHANGED <<inbox, ready, target, preview, handles, live, unsent>>
      /\ Calls' = Calls /\ (Clicked' <=> Clicked) /\ (Preparing' <=> Preparing)
  BY WorkLeaves
<1>2. /\ UNCHANGED <<total, done>> /\ phase[j] = "between" /\ phase' = [phase EXCEPT ![j] = "slicing"]
      /\ done[j] < total[j]
  BY DEF StartPlate, Shift
<1>3. /\ phase'[j] = "slicing" /\ \A k \in Job : k # j => phase'[k] = phase[k]
      /\ j \in Active
  BY <1>2 DEF OutInv, TypeOK, Active
<1>4. /\ Clicked /\ ~Preparing /\ ready = {} /\ Active = {j} /\ ~Called("slice")
      /\ ~Told(Outcome) /\ total[j] = 1 /\ done[j] = 0
  BY <1>2, <1>3, WhileActive
<1>5. ~Told(Story) /\ Coming /\ ~Called("load")
  BY <1>2, <1>3, <1>4 DEF OutInv, Turns, Previews, ActiveAlone, Coming, LoadsFirst
<1>6. PICK m \in Mail : m.kind = "PlateStarted" /\ m.plate = target[j] /\ m.job = j
                        /\ channel' = Append(channel, m)
  <2>1. Hear(j, "PlateStarted", done[j] + 1) /\ "PlateStarted" \in Kind /\ "PlateStarted" \in Story /\ done[j] + 1 \in Nat
    BY <1>4 DEF StartPlate, Kind, Story, Plates
  <2> QED
    BY <2>1, WorkSays DEF Work
<1>7. channel' \in Seq(Mail) /\ Mails' = Mails \cup {m} /\ MailInOrder'
  <2>1. \A k \in Mails : MayFollow(k, m)
    BY <1>5, <1>6 DEF MayFollow, Told, Story, Plates, Outcome, Terminal
  <2> QED
    BY <1>6, <2>1, MailSent DEF OutInv, Slices
<1>8. Active' = {j} /\ Used' = Used
  BY <1>1, <1>2, <1>3, <1>4 DEF Active, Used
<1>9. /\ \A k \in Mails : k.kind \notin Story
      /\ \A j1 : ToldOf("Loaded", j1)' <=> ToldOf("Loaded", j1)
      /\ ~Told(Outcome)' /\ ~Told({"PlateFinished"})' /\ Told({"PlateStarted"})'
      /\ \A j1 : ~ToldOf("PlateFinished", j1)'
  BY <1>5, <1>6, <1>7 DEF Told, ToldOf, Story, Plates, Outcome, Terminal
<1>10. Slices'
  <2>1. (Types /\ CallsInOrder /\ Numbered)'
    BY <1>1, <1>7, <1>8 DEF OutInv, Slices, Types, CallsInOrder, MayCallAfter, Numbered
  <2>2. JobOK'
    BY <1>1, <1>2, <1>3, <1>4, <1>8 DEF OutInv, Slices, JobOK
  <2>3. MailOK'
    BY <1>1, <1>2, <1>3, <1>6, <1>7 DEF OutInv, Slices, MailOK
  <2> QED
    BY <1>7, <2>1, <2>2, <2>3 DEF Slices
<1>11. Turns'
  <2>1. (ClickWaits /\ PreparesAlone /\ ReadyAlone)'
    BY <1>1, <1>4 DEF ClickWaits, PreparesAlone, ReadyAlone, Called
  <2>2. ActiveAlone'
    BY <1>1, <1>3, <1>4, <1>6, <1>7, <1>8, <1>9 DEF ActiveAlone, Story
  <2>3. OneTold'
    BY <1>1, <1>4, <1>6, <1>7, <1>9 DEF OneTold, Story
  <2> QED
    BY <2>1, <2>2, <2>3 DEF Turns
<1>12. Previews'
  <2>1. (CallsOK /\ CacheOK)'
    BY <1>1, <1>2 DEF OutInv, Previews, CallsOK, CacheOK
  <2>2. LoadsFirst' /\ Emptied'
    BY <1>1, <1>5, <1>9 DEF LoadsFirst, Emptied, Called
  <2>3. LoadedIsNew'
    BY <1>1, <1>6, <1>7 DEF OutInv, Previews, LoadedIsNew
  <2>4. FinishedIsNew'
    BY <1>9 DEF FinishedIsNew, Told
  <2>5. (DroppedIsGone /\ Owned)'
    BY <1>1, <1>9 DEF OutInv, Previews, DroppedIsGone, Owned, CalledFor
  <2> QED
    BY <2>1, <2>2, <2>3, <2>4, <2>5 DEF Previews
<1> QED
  BY <1>10, <1>11, <1>12

LEMMA FinishPlateStep ==
  ASSUME OutInv, NEW j \in Job, Work(j), FinishPlate(j)
  PROVE  Slices' /\ Turns' /\ Previews'
<1>1. /\ UNCHANGED <<inbox, ready, target, preview, handles, live, unsent>>
      /\ Calls' = Calls /\ (Clicked' <=> Clicked) /\ (Preparing' <=> Preparing)
  BY WorkLeaves
<1>2. /\ UNCHANGED total /\ phase[j] = "slicing" /\ phase' = [phase EXCEPT ![j] = "between"]
      /\ done' = [done EXCEPT ![j] = @ + 1]
  BY DEF FinishPlate, Shift
<1>3. /\ phase'[j] = "between" /\ \A k \in Job : k # j => phase'[k] = phase[k]
      /\ j \in Active
  BY <1>2 DEF OutInv, TypeOK, Active
<1>4. /\ Clicked /\ ~Preparing /\ ready = {} /\ Active = {j} /\ ~Called("slice")
      /\ ~Told(Outcome) /\ total[j] = 1
  BY <1>2, <1>3, WhileActive
<1>5. done[j] = 0 /\ done'[j] = 1 /\ \A k \in Job : k # j => done'[k] = done[k]
  <2>1. done[j] = 0
    BY <1>2 DEF OutInv, Slices, JobOK
  <2> QED
    BY <1>2, <2>1 DEF OutInv, TypeOK
<1>6. ~Told({"PlateFinished"}) /\ Coming /\ ~Called("load")
  BY <1>2, <1>3, <1>4, <1>5 DEF OutInv, Turns, Previews, ActiveAlone, Coming, LoadsFirst
<1>7. PICK m \in Mail : m.kind = "PlateFinished" /\ m.plate = target[j] /\ m.job = j
                        /\ channel' = Append(channel, m)
  <2>1. Hear(j, "PlateFinished", done[j] + 1) /\ "PlateFinished" \in Kind /\ "PlateFinished" \in Story /\ done[j] + 1 \in Nat
    BY <1>5 DEF FinishPlate, Kind, Story, Plates
  <2> QED
    BY <2>1, WorkSays DEF Work
<1>8. channel' \in Seq(Mail) /\ Mails' = Mails \cup {m} /\ MailInOrder'
  <2>1. \A k \in Mails : MayFollow(k, m)
    BY <1>4, <1>6, <1>7 DEF MayFollow, Told
  <2> QED
    BY <1>7, <2>1, MailSent DEF OutInv, Slices
<1>9. Active' = {j} /\ Used' = Used
  BY <1>1, <1>2, <1>3, <1>4 DEF Active, Used
<1>10. /\ \A j1 : ToldOf("Loaded", j1)' <=> ToldOf("Loaded", j1)
       /\ Told({"Loaded"})' <=> Told({"Loaded"})
       /\ ~Told(Outcome)' /\ (Told({"PlateStarted"})' <=> Told({"PlateStarted"}))
       /\ \A j1 : ToldOf("PlateFinished", j1)' <=> j1 = j
  BY <1>4, <1>6, <1>7, <1>8 DEF Told, ToldOf, Outcome, Terminal
<1>11. ~ToldOf("Loaded", j) /\ (\A p \in PlateId : preview[p] # j) /\ ~CalledFor("drop", j)
  <2>1. ~ToldOf("Loaded", j)
    BY <1>5 DEF OutInv, Slices, MailOK, ToldOf
  <2>2. \A p \in PlateId : preview[p] # j
    BY <1>5, OutputAssumption DEF OutInv, Previews, CacheOK
  <2>3. ~CalledFor("drop", j)
    BY <1>5 DEF OutInv, Previews, CallsOK, CalledFor
  <2> QED
    BY <2>1, <2>2, <2>3
<1>12. Slices'
  <2>1. (Types /\ CallsInOrder /\ Numbered)'
    BY <1>1, <1>8, <1>9 DEF OutInv, Slices, Types, CallsInOrder, MayCallAfter, Numbered
  <2>2. JobOK'
    BY <1>1, <1>2, <1>3, <1>4, <1>5, <1>9 DEF OutInv, Slices, JobOK
  <2>3. MailOK'
    BY <1>1, <1>2, <1>3, <1>5, <1>7, <1>8 DEF OutInv, Slices, MailOK
  <2> QED
    BY <1>8, <2>1, <2>2, <2>3 DEF Slices
<1>13. Turns'
  <2>1. (ClickWaits /\ PreparesAlone /\ ReadyAlone)'
    BY <1>1, <1>4 DEF ClickWaits, PreparesAlone, ReadyAlone, Called
  <2>2. \A k \in Mails' : k.kind \in Plates => k.job = j
    BY <1>3, <1>7, <1>8 DEF OutInv, Turns, ActiveAlone
  <2>3. ActiveAlone'
    BY <1>1, <1>4, <1>5, <1>9, <1>10, <2>2 DEF ActiveAlone
  <2>4. OneTold'
    BY <1>1, <1>4, <2>2 DEF OneTold
  <2> QED
    BY <2>1, <2>3, <2>4 DEF Turns
<1>14. Previews'
  <2>1. (CallsOK /\ CacheOK)'
    BY <1>1, <1>5, <1>11 DEF OutInv, Previews, CallsOK, CacheOK
  <2>2. LoadsFirst'
    BY <1>1, <1>6 DEF LoadsFirst, Called
  <2>3. Emptied'
    BY <1>1, <1>2, <1>3, <1>4, <1>10 DEF OutInv, Previews, Emptied, Active
  <2>4. LoadedIsNew'
    BY <1>1, <1>7, <1>8 DEF OutInv, Previews, LoadedIsNew
  <2>5. FinishedIsNew'
    BY <1>1, <1>6, <1>7, <1>8, <1>10, <1>11 DEF FinishedIsNew, Told
  <2>6. DroppedIsGone'
    BY <1>1, <1>10, <1>11 DEF OutInv, Previews, DroppedIsGone, CalledFor
  <2>7. Owned'
    BY <1>1, <1>10 DEF OutInv, Previews, Owned, CalledFor
  <2> QED
    BY <2>1, <2>2, <2>3, <2>4, <2>5, <2>6, <2>7 DEF Previews
<1> QED
  BY <1>12, <1>13, <1>14

LEMMA EndStep ==
  ASSUME OutInv, NEW j \in Job, Work(j), Finish(j) \/ Fail(j) \/ Cancel(j)
  PROVE  Slices' /\ Turns' /\ Previews'
<1>1. /\ UNCHANGED <<inbox, ready, target, preview, handles, live, unsent>>
      /\ Calls' = Calls /\ (Clicked' <=> Clicked) /\ (Preparing' <=> Preparing)
  BY WorkLeaves
<1>2. /\ UNCHANGED <<total, done>> /\ phase[j] \in {"between", "slicing"}
      /\ phase' = [phase EXCEPT ![j] = "ended"]
  BY DEF Finish, Fail, Cancel, Shift
<1>3. /\ phase'[j] = "ended" /\ \A k \in Job : k # j => phase'[k] = phase[k]
      /\ j \in Active
  BY <1>2 DEF OutInv, TypeOK, Active
<1>4. /\ Clicked /\ ~Preparing /\ ready = {} /\ Active = {j} /\ ~Called("slice")
      /\ ~Told(Outcome)
  BY <1>3, WhileActive
<1>5. PICK m \in Mail : m.kind \in Terminal /\ channel' = Append(channel, m)
  <2>0. done[j] \in Nat /\ done[j] + 1 \in Nat /\ Terminal \subseteq Kind /\ Terminal \subseteq Story
    BY DEF OutInv, TypeOK, Kind, Story, Outcome
  <2>1. PICK kind \in Terminal, plate \in Nat : Hear(j, kind, plate)
    BY <2>0 DEF Finish, Fail, Cancel, Terminal
  <2>2. kind \in Kind /\ kind \in Story
    BY <2>0
  <2> QED
    BY <2>1, <2>2, WorkSays DEF Work
<1>6. /\ channel' \in Seq(Mail) /\ Mails' = Mails \cup {m} /\ MailInOrder'
      /\ Told(Plates)' <=> Told(Plates)
      /\ Told({"PlateStarted"})' <=> Told({"PlateStarted"})
      /\ Told({"Loaded"})' <=> Told({"Loaded"})
      /\ \A j1 : ToldOf("PlateFinished", j1)' <=> ToldOf("PlateFinished", j1)
      /\ \A j1 : ToldOf("Loaded", j1)' <=> ToldOf("Loaded", j1)
  BY <1>4, <1>5, LastWord DEF Outcome
<1>7. m.kind \notin Plates \cup {"Loaded"} /\ m.kind # "PlateFinished"
  BY <1>5 DEF Terminal, Plates
<1>8. Active' = {} /\ Used' = Used
  BY <1>1, <1>2, <1>3, <1>4 DEF Active, Used
<1>9. Slices'
  <2>1. (Types /\ CallsInOrder /\ Numbered)'
    BY <1>1, <1>6, <1>8 DEF OutInv, Slices, Types, CallsInOrder, MayCallAfter, Numbered
  <2>2. JobOK'
    BY <1>1, <1>2, <1>3, <1>4, <1>8 DEF OutInv, Slices, JobOK
  <2>3. MailOK'
    BY <1>1, <1>2, <1>3, <1>6, <1>7 DEF OutInv, Slices, MailOK
  <2> QED
    BY <1>6, <2>1, <2>2, <2>3 DEF Slices
<1>10. Turns'
  <2>1. (ClickWaits /\ PreparesAlone /\ ReadyAlone)'
    BY <1>1, <1>4 DEF ClickWaits, PreparesAlone, ReadyAlone, Called
  <2>2. ActiveAlone'
    BY <1>8 DEF ActiveAlone
  <2>3. OneTold'
    BY <1>1, <1>4, <1>6, <1>7 DEF OutInv, Turns, OneTold
  <2> QED
    BY <2>1, <2>2, <2>3 DEF Turns
<1>11. Previews'
  <2>1. (CallsOK /\ CacheOK)'
    BY <1>1, <1>2 DEF OutInv, Previews, CallsOK, CacheOK
  <2>2. LoadsFirst'
    BY <1>1, <1>4, <1>6, <1>8 DEF OutInv, Previews, LoadsFirst, Called, Coming
  <2>3. Emptied'
    BY <1>1, <1>3, <1>6 DEF OutInv, Previews, Emptied
  <2>4. LoadedIsNew' /\ FinishedIsNew'
    BY <1>1, <1>6, <1>7 DEF OutInv, Previews, LoadedIsNew, FinishedIsNew, Plates
  <2>5. (DroppedIsGone /\ Owned)'
    BY <1>1, <1>6 DEF OutInv, Previews, DroppedIsGone, Owned, CalledFor
  <2> QED
    BY <2>1, <2>2, <2>3, <2>4, <2>5 DEF Previews
<1> QED
  BY <1>9, <1>10, <1>11

-----------------------------------------------------------------------------
(* The page takes the oldest of its mail.  What every delivery leaves alone. *)
LEMMA Delivered ==
  ASSUME OutInv, Deliver
  PROVE  /\ UNCHANGED <<phase, total, done, ready, target, handles, live, unsent>>
         /\ Active' = Active /\ Used' = Used /\ (Preparing' <=> Preparing)
         /\ channel' \in Seq(Mail) /\ MailInOrder' /\ MailOK'
         /\ Head(channel) \in Mail /\ Mails = Mails' \cup {Head(channel)}
         /\ \A k \in Mails' : MayFollow(Head(channel), k)
         /\ \A K : Told(K)' => Told(K)
         /\ \A j : ToldOf("Loaded", j)' => ToldOf("Loaded", j)
         /\ \A j : ToldOf("PlateFinished", j)' => ToldOf("PlateFinished", j)
<1>1. UNCHANGED <<phase, total, done, ready, target, handles, live, unsent>>
  BY DEF Deliver, sliceVars, editVars, vars
<1>2. UNCHANGED sliceVars
  BY Zenon DEF Deliver
<1>3. Preparing' <=> Preparing
  BY <1>2, Zenon DEF Preparing, sliceVars
<1>4. /\ channel' \in Seq(Mail) /\ MailInOrder'
      /\ Head(channel) \in Mail /\ Mails = Mails' \cup {Head(channel)}
      /\ \A k \in Mails' : MayFollow(Head(channel), k)
  BY MailTaken DEF Deliver, OutInv, Slices
<1>5. MailOK'
  BY <1>1, <1>4 DEF OutInv, Slices, MailOK
<1> QED
  BY <1>1, <1>3, <1>4, <1>5 DEF Active, Used, Told, ToldOf

(* What the page forgets, it drops: one call for each preview it had. *)
LEMMA ForgetStep ==
  ASSUME OutInv, Deliver, NEW S \in SUBSET PlateId, Forget(S),
         Head(channel).kind \in {"PlateStarted", "Edited"},
         Head(channel).kind = "PlateStarted" => Head(channel).plate \in S
  PROVE  Slices' /\ Turns' /\ Previews'
<1> DEFINE e == Head(channel)
           D == {Message("drop", p, preview[p]) : p \in {q \in S : preview[q] # NoJob}}
<1>1. /\ UNCHANGED <<phase, total, done, ready, target, handles, live, unsent>>
      /\ Active' = Active /\ Used' = Used /\ (Preparing' <=> Preparing)
      /\ channel' \in Seq(Mail) /\ MailInOrder' /\ MailOK'
      /\ e \in Mail /\ Mails = Mails' \cup {e}
      /\ \A k \in Mails' : MayFollow(e, k)
      /\ \A K : Told(K)' => Told(K)
      /\ \A j : ToldOf("Loaded", j)' => ToldOf("Loaded", j)
      /\ \A j : ToldOf("PlateFinished", j)' => ToldOf("PlateFinished", j)
  BY Delivered
<1>2. Clicked' <=> Clicked
  <2>1. UNCHANGED busy
    BY Zenon DEF Forget
  <2> QED
    BY <2>1, Zenon DEF Clicked
<1>3. e.kind # "Loaded" /\ e.kind # "PlateFinished" /\ e.kind \notin Outcome
  BY DEF Outcome, Terminal
<1>4. /\ \A j : ToldOf("Loaded", j)' <=> ToldOf("Loaded", j)
      /\ Told({"Loaded"})' <=> Told({"Loaded"})
  BY <1>1, <1>3 DEF ToldOf, Told
<1>5. /\ preview' \in [PlateId -> JobOrNone]
      /\ \A p \in PlateId : preview'[p] = IF p \in S THEN NoJob ELSE preview[p]
  BY DEF Forget, Without, OutInv, Slices, Types, JobOrNone
<1>6. /\ DropCalls(S) \in Seq(Call) /\ In(DropCalls(S)) = D
      /\ \A i, k \in 1..Len(DropCalls(S)) : i < k => MayCallAfter(DropCalls(S)[i], DropCalls(S)[k])
  BY DropCallsOfSet DEF OutInv, Slices, Previews
<1>7. \A d \in D : /\ d.kind = "drop" /\ d.plate \in S /\ d.job = preview[d.plate] /\ d.job \in Job
                   /\ d.plate = target[d.job] /\ done[d.job] = 1
  BY DEF Message, OutInv, Previews, CacheOK
<1>8. \A p \in S : preview[p] # NoJob => \E d \in D : d.kind = "drop" /\ d.job = preview[p]
  <2> TAKE p \in S
  <2> HAVE preview[p] # NoJob
  <2>1. Message("drop", p, preview[p]) \in D
    OBVIOUS
  <2> QED
    BY <2>1 DEF Message
<1> HIDE DEF D
<1>9. \A c \in Calls : \A d \in D : MayCallAfter(c, d)
  <2> SUFFICES ASSUME NEW c \in Calls, NEW d \in D PROVE MayCallAfter(c, d)
    OBVIOUS
  <2>1. c.kind = "drop" => c.job # d.job
    BY <1>5, <1>7 DEF OutInv, Previews, DroppedIsGone
  <2> QED
    BY <1>7, <2>1 DEF MayCallAfter
<1>10. inbox' \in Seq(Call) /\ Calls' = Calls \cup D /\ CallsInOrder'
  <2>1. inbox' = inbox \o DropCalls(S)
    BY DEF Forget
  <2> QED
    BY <1>6, <1>9, <2>1, CallsMade DEF OutInv, Slices
<1>11. /\ (Called("slice")' <=> Called("slice")) /\ (Called("load")' <=> Called("load"))
       /\ \A j : CalledFor("load", j)' <=> CalledFor("load", j)
       /\ \A j : CalledFor("drop", j)' <=> CalledFor("drop", j) \/ \E p \in S : preview[p] = j /\ preview[p] # NoJob
  <2>1. /\ (Called("slice")' <=> Called("slice")) /\ (Called("load")' <=> Called("load"))
        /\ \A j : CalledFor("load", j)' <=> CalledFor("load", j)
    BY <1>7, <1>10 DEF Called, CalledFor
  <2>2. ASSUME NEW j, CalledFor("drop", j)', ~CalledFor("drop", j)
        PROVE \E p \in S : preview[p] = j /\ preview[p] # NoJob
    <3>1. PICK d \in D : d.job = j
      BY <1>10, <2>2 DEF CalledFor
    <3>2. d.plate \in S /\ preview[d.plate] = j /\ j \in Job
      BY <1>7, <3>1
    <3>3. j # NoJob
      BY <3>2, OutputAssumption
    <3> QED
      BY <3>2, <3>3
  <2>3. ASSUME NEW j, NEW p \in S, preview[p] = j, preview[p] # NoJob PROVE CalledFor("drop", j)'
    <3>1. PICK d \in D : d.kind = "drop" /\ d.job = j
      BY <1>8, <2>3
    <3> QED
      BY <1>10, <3>1 DEF CalledFor
  <2>4. ASSUME NEW j, CalledFor("drop", j) PROVE CalledFor("drop", j)'
    BY <1>10, <2>4 DEF CalledFor
  <2> QED
    BY <2>1, <2>2, <2>3, <2>4
<1>12. Slices'
  <2>1. (Types /\ JobOK /\ Numbered)'
    BY <1>1, <1>5, <1>10 DEF OutInv, Slices, Types, JobOK, Numbered
  <2> QED
    BY <1>1, <1>10, <2>1 DEF Slices
<1>13. Turns'
  <2>1. (ClickWaits /\ PreparesAlone /\ ReadyAlone)'
    BY <1>1, <1>2, <1>11 DEF OutInv, Turns, ClickWaits, PreparesAlone, ReadyAlone, Resting
  <2>2. ActiveAlone' /\ OneTold'
    BY <1>1, <1>2 DEF OutInv, Turns, ActiveAlone, OneTold
  <2> QED
    BY <2>1, <2>2 DEF Turns
<1>14. \A p \in S : preview[p] # NoJob =>
         /\ ~CalledFor("load", preview[p]) /\ ~ToldOf("PlateFinished", preview[p]) /\ ~ToldOf("Loaded", preview[p])
         /\ \A q \in PlateId : preview'[q] # preview[p]
  <2> SUFFICES ASSUME NEW p \in S, preview[p] # NoJob
               PROVE  /\ ~CalledFor("load", preview[p]) /\ ~ToldOf("PlateFinished", preview[p]) /\ ~ToldOf("Loaded", preview[p])
                      /\ \A q \in PlateId : preview'[q] # preview[p]
    OBVIOUS
  <2>0. preview[p] \in Job /\ target[preview[p]] = p /\ p \in PlateId
    BY DEF OutInv, Previews, CacheOK
  <2>1. ~CalledFor("load", preview[p])
    BY <2>0 DEF OutInv, Previews, CallsOK, LoadedIsNew, CalledFor
  <2>2. ~ToldOf("Loaded", preview[p])
    BY <2>0 DEF OutInv, Previews, Slices, MailOK, LoadedIsNew, ToldOf
  <2>3. ~ToldOf("PlateFinished", preview[p])
    BY <2>0 DEF OutInv, Previews, FinishedIsNew, ToldOf
  <2>4. \A q \in PlateId : preview'[q] # preview[p]
    BY <1>5, <2>0 DEF OutInv, Previews, CacheOK
  <2> QED
    BY <2>1, <2>2, <2>3, <2>4
<1>15. Previews'
  <2>1. CallsOK'
    BY <1>1, <1>7, <1>10 DEF OutInv, Previews, CallsOK
  <2>2. CacheOK'
    BY <1>1, <1>5 DEF OutInv, Previews, CacheOK
  <2>3. LoadsFirst'
    BY <1>1, <1>11 DEF OutInv, Previews, LoadsFirst, Coming
  <2>4. Emptied'
    <3>1. CASE e.kind = "Edited"
      <4>1. /\ Told({"PlateStarted"})' <=> Told({"PlateStarted"})
        BY <1>1, <3>1 DEF Told
      <4> QED
        BY <1>1, <1>4, <1>5, <4>1 DEF OutInv, Previews, Slices, Types, Emptied
    <3>2. CASE e.kind = "PlateStarted"
      <4>1. ~Told({"Loaded"})'
        BY <1>1, <3>2 DEF Told, MayFollow
      <4>2. e \in Mails /\ e.job \in Job /\ e.plate = target[e.job] /\ e.plate \in S
        BY <1>1, <3>2 DEF OutInv, Slices, MailOK, Plates
      <4>3. ASSUME NEW j \in Job, phase'[j] = "slicing" \/ ToldOf("PlateFinished", j)' PROVE j = e.job
        <5>1. CASE phase'[j] = "slicing"
          BY <1>1, <3>2, <4>2, <5>1 DEF OutInv, Turns, ActiveAlone, Active, Plates
        <5>2. CASE ToldOf("PlateFinished", j)'
          BY <1>1, <3>2, <4>2, <5>2 DEF OutInv, Turns, OneTold, Plates, ToldOf
        <5> QED
          BY <4>3, <5>1, <5>2
      <4> QED
        BY <1>1, <1>5, <4>1, <4>2, <4>3 DEF Emptied
    <3> QED
      BY <3>1, <3>2
  <2>5. LoadedIsNew'
    <3>1. \A m \in Mails' : m.kind = "Loaded" => m.plate \in PlateId /\ preview'[m.plate] = NoJob
      BY <1>1, <1>5 DEF OutInv, Previews, Slices, Types, MailOK, LoadedIsNew
    <3>2. \A c \in Calls' : c.kind = "load" => c.plate \in PlateId /\ preview'[c.plate] = NoJob
      BY <1>5, <1>7, <1>10 DEF OutInv, Previews, Slices, Types, CallsOK, LoadedIsNew
    <3> QED
      BY <3>1, <3>2 DEF LoadedIsNew
  <2>6. FinishedIsNew'
    BY <1>1, <1>5, OutputAssumption DEF OutInv, Previews, Slices, MailOK, FinishedIsNew, Plates
  <2>7. DroppedIsGone'
    <3>1. ASSUME NEW c \in Calls, c.kind = "drop"
          PROVE  /\ ~CalledFor("load", c.job)' /\ ~ToldOf("PlateFinished", c.job)' /\ ~ToldOf("Loaded", c.job)'
                 /\ \A p \in PlateId : preview'[p] # c.job
      BY <1>1, <1>5, <1>11, <3>1, OutputAssumption DEF OutInv, Previews, CallsOK, DroppedIsGone
    <3>2. ASSUME NEW d \in D
          PROVE  /\ ~CalledFor("load", d.job)' /\ ~ToldOf("PlateFinished", d.job)' /\ ~ToldOf("Loaded", d.job)'
                 /\ \A p \in PlateId : preview'[p] # d.job
      <4>1. d.plate \in S /\ d.job = preview[d.plate] /\ preview[d.plate] # NoJob
        BY <1>7, OutputAssumption
      <4> QED
        BY <1>1, <1>11, <1>14, <4>1
    <3> QED
      BY <1>10, <3>1, <3>2 DEF DroppedIsGone
  <2>8. Owned'
    <3> SUFFICES ASSUME NEW j \in Job
                 PROVE j \in handles' <=> \/ \E p \in PlateId : preview'[p] = j
                                          \/ ToldOf("Loaded", j)'
                                          \/ CalledFor("drop", j)'
      BY DEF Owned
    <3>1. j # NoJob
      BY OutputAssumption
    <3>2. (\E p \in PlateId : preview'[p] = j) \/ (\E p \in S : preview[p] = j) <=> \E p \in PlateId : preview[p] = j
      BY <1>5, <3>1
    <3>3. j \in handles <=> \/ \E p \in PlateId : preview[p] = j
                            \/ ToldOf("Loaded", j)
                            \/ CalledFor("drop", j)
      BY DEF OutInv, Previews, Owned
    <3>4. CalledFor("drop", j)' <=> CalledFor("drop", j) \/ \E p \in S : preview[p] = j
      BY <1>11, <3>1
    <3>5. handles' = handles /\ (ToldOf("Loaded", j)' <=> ToldOf("Loaded", j))
      BY <1>1, <1>4
    <3> QED
      BY <3>2, <3>3, <3>4, <3>5
  <2> QED
    BY <2>1, <2>2, <2>3, <2>4, <2>5, <2>6, <2>7, <2>8 DEF Previews
<1> QED
  BY <1>12, <1>13, <1>15

(* A finished plate has its place in the cache free: its preview is asked   *)
(* for behind everything that waits.                                        *)
LEMMA FinishedIsFree ==
  ASSUME OutInv, Deliver, OnPlateFinished(Head(channel))
  PROVE  LET e == Head(channel)
         IN  /\ e.kind = "PlateFinished" /\ e \in Mails
             /\ e.job \in Job /\ e.plate = target[e.job] /\ e.plate \in PlateId /\ done[e.job] = 1
             /\ ~Told({"PlateStarted"}) /\ ~Told(Plates)' /\ ~Told({"Loaded"})
             /\ preview[e.plate] = NoJob /\ ~Called("load") /\ ~Called("slice")
             /\ inbox' = Append(inbox, Message("load", e.plate, e.job)) /\ UNCHANGED preview
<1> DEFINE e == Head(channel)
           c == Message("load", e.plate, e.job)
<1>1. e \in Mail /\ Mails = Mails' \cup {e} /\ \A k \in Mails' : MayFollow(e, k)
  BY Delivered
<1>3. e.kind = "PlateFinished" /\ e \in Mails
  BY <1>1 DEF OnPlateFinished
<1>4. /\ Told({"PlateFinished"}) /\ Told(Plates) /\ Told(Story) /\ Coming
      /\ ToldOf("PlateFinished", e.job)
  BY <1>3 DEF Told, ToldOf, Plates, Story, Coming
<1>5. e.job \in Job /\ e.plate = target[e.job] /\ e.plate \in PlateId /\ done[e.job] = 1
  BY <1>3 DEF OutInv, Slices, MailOK, Types, Plates
<1>6. ~Told({"PlateStarted"}) /\ ~Told(Plates)'
  BY <1>1, <1>3 DEF Told, MayFollow, Plates
<1>7. preview[e.plate] = NoJob /\ ~Told({"Loaded"})
  BY <1>4, <1>5, <1>6 DEF OutInv, Previews, Emptied
<1>8. ~Called("load") /\ ~Called("slice")
  BY <1>4 DEF OutInv, Previews, Turns, LoadsFirst, ClickWaits, Resting
<1>9. inbox' = Append(inbox, c) /\ UNCHANGED preview
  <2>1. DropCalls({e.plate}) = <<>>
    <3>1. /\ {e.plate} \in SUBSET PlateId
          /\ \A p \in {e.plate} : preview[p] = NoJob
      BY <1>5, <1>7
    <3> QED
      BY <3>1, DropCallsOfSet DEF OutInv, Slices, Previews
  <2>2. inbox \in Seq(Call)
    BY DEF OutInv, Slices, Types
  <2>3. inbox' = inbox \o <<>> \o <<c>> /\ UNCHANGED preview
    BY <2>1 DEF OnPlateFinished
  <2> HIDE DEF c
  <2> QED
    BY <2>2, <2>3
<1> QED
  BY <1>3, <1>5, <1>6, <1>7, <1>8, <1>9 DEF c

(* Its preview is asked for, and nothing else of it is on its way.          *)
LEMMA FinishedStep ==
  ASSUME OutInv, Deliver, OnPlateFinished(Head(channel))
  PROVE  Slices' /\ Turns' /\ Previews'
<1> DEFINE e == Head(channel)
           c == Message("load", e.plate, e.job)
<1>1. /\ UNCHANGED <<phase, total, done, ready, target, handles, live, unsent>>
      /\ Active' = Active /\ Used' = Used /\ (Preparing' <=> Preparing)
      /\ channel' \in Seq(Mail) /\ MailInOrder' /\ MailOK'
      /\ e \in Mail /\ Mails = Mails' \cup {e}
      /\ \A k \in Mails' : MayFollow(e, k)
      /\ \A K : Told(K)' => Told(K)
      /\ \A j : ToldOf("Loaded", j)' => ToldOf("Loaded", j)
      /\ \A j : ToldOf("PlateFinished", j)' => ToldOf("PlateFinished", j)
  BY Delivered
<1>2. Clicked' <=> Clicked
  <2>1. UNCHANGED busy
    BY Zenon DEF OnPlateFinished
  <2> QED
    BY <2>1, Zenon DEF Clicked
<1>3. e.kind = "PlateFinished" /\ e \in Mails
  BY <1>1 DEF OnPlateFinished
<1>4. /\ Told({"PlateFinished"}) /\ Told(Plates) /\ Told(Story) /\ Coming
      /\ ToldOf("PlateFinished", e.job)
  BY <1>3 DEF Told, ToldOf, Plates, Story, Coming
<1>5. e.job \in Job /\ e.plate = target[e.job] /\ e.plate \in PlateId /\ done[e.job] = 1
  BY <1>3 DEF OutInv, Slices, MailOK, Types, Plates
<1>6. ~Told({"PlateStarted"}) /\ ~Told(Plates)' /\ ~Told({"Loaded"})'
  BY <1>1, <1>3 DEF Told, MayFollow, Plates
<1>7. preview[e.plate] = NoJob /\ ~Told({"Loaded"})
  BY FinishedIsFree
<1>8. ~Called("load") /\ ~Called("slice")
  BY FinishedIsFree
<1>9. c \in Call /\ c.kind = "load" /\ c.job = e.job /\ c.plate = e.plate
  BY <1>5 DEF Call, Message, JobOrNone
<1>10. inbox' = Append(inbox, c) /\ UNCHANGED preview
  BY FinishedIsFree
<1> HIDE DEF c
<1>11. inbox' \in Seq(Call) /\ Calls' = Calls \cup {c} /\ CallsInOrder'
  <2>1. \A k \in Calls : MayCallAfter(k, c)
    BY <1>8, <1>9 DEF MayCallAfter, Called
  <2> QED
    BY <1>9, <1>10, <2>1, CallMade DEF OutInv, Slices
<1>12. /\ ~Called("slice")'
       /\ \A j : CalledFor("drop", j)' <=> CalledFor("drop", j)
       /\ \A j : CalledFor("load", j)' <=> j = e.job
  BY <1>8, <1>9, <1>11 DEF Called, CalledFor
<1>13. Slices'
  <2>1. (Types /\ JobOK /\ Numbered)'
    BY <1>1, <1>10, <1>11 DEF OutInv, Slices, Types, JobOK, Numbered
  <2> QED
    BY <1>1, <1>11, <2>1 DEF Slices
<1>14. Turns'
  <2>1. (ClickWaits /\ PreparesAlone /\ ReadyAlone)'
    BY <1>1, <1>2, <1>12 DEF OutInv, Turns, ClickWaits, PreparesAlone, ReadyAlone, Resting
  <2>2. ActiveAlone' /\ OneTold'
    BY <1>1, <1>2 DEF OutInv, Turns, ActiveAlone, OneTold
  <2> QED
    BY <2>1, <2>2 DEF Turns
<1>15. Previews'
  <2>1. (CallsOK /\ CacheOK)'
    BY <1>1, <1>5, <1>9, <1>10, <1>11 DEF OutInv, Previews, CallsOK, CacheOK
  <2>2. LoadsFirst'
    <3>1. ~Preparing /\ ready = {} /\ \A j \in Active : done[j] # 0
      BY <1>4 DEF OutInv, Turns, PreparesAlone, ReadyAlone, ActiveAlone, Resting
    <3> QED
      BY <1>1, <1>6, <3>1 DEF LoadsFirst, Coming
  <2>3. Emptied'
    BY <1>1, <1>6, <1>10 DEF OutInv, Previews, Emptied
  <2>4. LoadedIsNew'
    BY <1>1, <1>7, <1>8, <1>9, <1>10, <1>11 DEF OutInv, Previews, LoadedIsNew, Called
  <2>5. FinishedIsNew'
    BY <1>1, <1>10 DEF OutInv, Previews, FinishedIsNew
  <2>6. DroppedIsGone'
    <3>1. \A d \in Calls' : d.kind = "drop" => d \in Calls /\ d.job # e.job
      BY <1>4, <1>9, <1>11 DEF OutInv, Previews, DroppedIsGone
    <3> QED
      BY <1>1, <1>10, <1>12, <3>1 DEF OutInv, Previews, DroppedIsGone
  <2>7. Owned'
    <3>1. \A j : ToldOf("Loaded", j)' <=> ToldOf("Loaded", j)
      BY <1>1, <1>3 DEF ToldOf
    <3> QED
      BY <1>1, <1>10, <1>12, <3>1 DEF OutInv, Previews, Owned
  <2> QED
    BY <2>1, <2>2, <2>3, <2>4, <2>5, <2>6, <2>7 DEF Previews
<1> QED
  BY <1>13, <1>14, <1>15

(* A loaded preview is the only one, and its place is free. *)
LEMMA LoadedStep ==
  ASSUME OutInv, Deliver, OnLoaded(Head(channel))
  PROVE  Slices' /\ Turns' /\ Previews'
<1> DEFINE e == Head(channel)
<1>1. /\ UNCHANGED <<phase, total, done, ready, target, handles, live, unsent>>
      /\ Active' = Active /\ Used' = Used /\ (Preparing' <=> Preparing)
      /\ channel' \in Seq(Mail) /\ MailInOrder' /\ MailOK'
      /\ e \in Mail /\ Mails = Mails' \cup {e}
      /\ \A k \in Mails' : MayFollow(e, k)
      /\ \A K : Told(K)' => Told(K)
      /\ \A j : ToldOf("Loaded", j)' => ToldOf("Loaded", j)
      /\ \A j : ToldOf("PlateFinished", j)' => ToldOf("PlateFinished", j)
  BY Delivered
<1>2. Clicked' <=> Clicked
  <2>1. UNCHANGED busy
    BY Zenon DEF OnLoaded
  <2> QED
    BY <2>1, Zenon DEF Clicked
<1>3. /\ e.kind = "Loaded" /\ e \in Mails /\ inbox' = inbox
      /\ preview' = [preview EXCEPT ![e.plate] = e.job]
  BY <1>1 DEF OnLoaded
<1>4. Calls' = Calls
  BY <1>3 DEF Calls
<1>5. /\ e.job \in Job /\ e.plate = target[e.job] /\ e.plate \in PlateId /\ done[e.job] = 1
      /\ preview[e.plate] = NoJob /\ ToldOf("Loaded", e.job) /\ Told({"Loaded"})
  BY <1>3 DEF OutInv, Slices, Previews, MailOK, Types, LoadedIsNew, ToldOf, Told
<1>6. /\ preview' \in [PlateId -> JobOrNone]
      /\ \A p \in PlateId : preview'[p] = IF p = e.plate THEN e.job ELSE preview[p]
  BY <1>3, <1>5 DEF OutInv, Slices, Types, JobOrNone
<1>7. ~Told({"Loaded"})' /\ \A j : ~ToldOf("Loaded", j)'
  BY <1>1, <1>3 DEF Told, ToldOf, MayFollow
<1>8. ~Called("load")
  BY <1>5 DEF OutInv, Previews, LoadsFirst
<1>9. \A j : ToldOf("Loaded", j) => j = e.job
  BY <1>1, <1>7 DEF ToldOf
<1>10. Slices'
  <2>1. Types'
    BY <1>1, <1>3, <1>6 DEF OutInv, Slices, Types
  <2>2. (CallsInOrder /\ JobOK /\ Numbered)'
    BY <1>1, <1>3 DEF OutInv, Slices, CallsInOrder, MayCallAfter, JobOK, Numbered
  <2> QED
    BY <1>1, <2>1, <2>2 DEF Slices
<1>11. Turns'
  <2>1. (ClickWaits /\ PreparesAlone /\ ReadyAlone)'
    BY <1>1, <1>2, <1>4 DEF OutInv, Turns, ClickWaits, PreparesAlone, ReadyAlone, Resting, Called
  <2>2. ActiveAlone' /\ OneTold'
    BY <1>1, <1>2 DEF OutInv, Turns, ActiveAlone, OneTold
  <2> QED
    BY <2>1, <2>2 DEF Turns
<1>12. Previews'
  <2>1. CallsOK'
    BY <1>1, <1>4 DEF OutInv, Previews, CallsOK
  <2>2. CacheOK'
    BY <1>1, <1>5, <1>6 DEF OutInv, Previews, CacheOK
  <2>3. LoadsFirst'
    BY <1>4, <1>8 DEF LoadsFirst, Called
  <2>4. Emptied'
    <3>1. Told({"PlateStarted"}) => Told({"PlateStarted"})'
      BY <1>1, <1>3 DEF Told
    <3> QED
      BY <1>1, <1>5, <3>1 DEF OutInv, Previews, Emptied
  <2>5. LoadedIsNew'
    BY <1>4, <1>7, <1>8 DEF LoadedIsNew, Called, Told
  <2>6. FinishedIsNew'
    <3>1. \A m \in Mails' : m.kind = "PlateFinished" => m.job # e.job
      BY <1>1, <1>5 DEF OutInv, Previews, FinishedIsNew
    <3> QED
      BY <1>1, <1>6, <1>7, <3>1 DEF OutInv, Previews, FinishedIsNew
  <2>7. DroppedIsGone'
    <3>1. \A d \in Calls : d.kind = "drop" => d.job # e.job
      BY <1>5 DEF OutInv, Previews, DroppedIsGone
    <3> QED
      BY <1>1, <1>4, <1>6, <3>1 DEF OutInv, Previews, DroppedIsGone, CalledFor
  <2>8. Owned'
    <3> SUFFICES ASSUME NEW j \in Job
                 PROVE j \in handles' <=> \/ \E p \in PlateId : preview'[p] = j
                                          \/ ToldOf("Loaded", j)'
                                          \/ CalledFor("drop", j)'
      BY DEF Owned
    <3>1. (\E p \in PlateId : preview'[p] = j) <=> (\E p \in PlateId : preview[p] = j) \/ j = e.job
      BY <1>5, <1>6, OutputAssumption
    <3>2. ToldOf("Loaded", j) <=> j = e.job
      BY <1>5, <1>9
    <3>3. handles' = handles /\ (CalledFor("drop", j)' <=> CalledFor("drop", j))
      BY <1>1, <1>4 DEF CalledFor
    <3> QED
      BY <1>7, <3>1, <3>2, <3>3 DEF OutInv, Previews, Owned
  <2> QED
    BY <2>1, <2>2, <2>3, <2>4, <2>5, <2>6, <2>7, <2>8 DEF Previews
<1> QED
  BY <1>10, <1>11, <1>12

(* The outcome ends the page's slice: nothing of it is left to be told. *)
LEMMA OutcomeStep ==
  ASSUME OutInv, Deliver, OnOutcome(Head(channel))
  PROVE  Slices' /\ Turns' /\ Previews'
<1> DEFINE e == Head(channel)
<1>1. /\ UNCHANGED <<phase, total, done, ready, target, handles, live, unsent>>
      /\ Active' = Active /\ Used' = Used /\ (Preparing' <=> Preparing)
      /\ channel' \in Seq(Mail) /\ MailInOrder' /\ MailOK'
      /\ e \in Mail /\ Mails = Mails' \cup {e}
      /\ \A k \in Mails' : MayFollow(e, k)
      /\ \A K : Told(K)' => Told(K)
      /\ \A j : ToldOf("Loaded", j)' => ToldOf("Loaded", j)
      /\ \A j : ToldOf("PlateFinished", j)' => ToldOf("PlateFinished", j)
  BY Delivered
<1>2. e.kind \in Outcome /\ e \in Mails /\ UNCHANGED <<inbox, preview>>
  BY <1>1 DEF OnOutcome, Outcome
<1>3. Calls' = Calls
  BY <1>2 DEF Calls
<1>4. Told(Outcome) /\ Told(Story) /\ ~Told(Story)'
  BY <1>1, <1>2 DEF Told, MayFollow, Story
<1>5. ready = {} /\ Active = {} /\ ~Preparing /\ ~Called("slice")
  BY <1>4 DEF OutInv, Turns, ReadyAlone, ActiveAlone, PreparesAlone, ClickWaits, Resting
<1>6. \A j : ToldOf("Loaded", j)' <=> ToldOf("Loaded", j)
  BY <1>1, <1>2 DEF ToldOf, Outcome, Terminal
<1>7. Told({"PlateStarted"}) => Told({"PlateStarted"})'
  BY <1>1, <1>2 DEF Told, Outcome, Terminal
<1>8. Slices'
  <2>1. (Types /\ CallsInOrder /\ JobOK /\ Numbered)'
    BY <1>1, <1>2 DEF OutInv, Slices, Types, CallsInOrder, MayCallAfter, JobOK, Numbered
  <2> QED
    BY <1>1, <2>1 DEF Slices
<1>9. Turns'
  <2>1. ~Called("slice")' /\ ~Preparing' /\ ready' = {} /\ Active' = {}
    BY <1>1, <1>3, <1>5 DEF Called
  <2>2. OneTold'
    BY <1>4 DEF OneTold, Told, Story
  <2> QED
    BY <2>1, <2>2 DEF Turns, ClickWaits, PreparesAlone, ReadyAlone, ActiveAlone
<1>10. Previews'
  <2>1. (CallsOK /\ CacheOK)'
    BY <1>1, <1>2, <1>3 DEF OutInv, Previews, CallsOK, CacheOK
  <2>2. LoadsFirst'
    BY <1>1, <1>3 DEF OutInv, Previews, LoadsFirst, Coming, Called
  <2>3. Emptied'
    BY <1>1, <1>2, <1>7 DEF OutInv, Previews, Emptied
  <2>4. LoadedIsNew' /\ FinishedIsNew'
    BY <1>1, <1>2, <1>3 DEF OutInv, Previews, LoadedIsNew, FinishedIsNew
  <2>5. DroppedIsGone' /\ Owned'
    BY <1>1, <1>2, <1>3, <1>6 DEF OutInv, Previews, DroppedIsGone, Owned, CalledFor
  <2> QED
    BY <2>1, <2>2, <2>3, <2>4, <2>5 DEF Previews
<1> QED
  BY <1>8, <1>9, <1>10

LEMMA DeliverStep ==
  ASSUME OutInv, Deliver
  PROVE  Slices' /\ Turns' /\ Previews'
<1> DEFINE e == Head(channel)
<1>1. e \in Mail /\ e \in Mails
  BY Delivered
<1>2. CASE OnPlateStarted(e)
  <2>1. e.kind = "PlateStarted" /\ Forget({e.plate})
    BY <1>2 DEF OnPlateStarted
  <2>2. {e.plate} \in SUBSET PlateId
    BY <1>1, <2>1 DEF OutInv, Slices, MailOK, Types, Plates
  <2> QED
    BY <2>1, <2>2, ForgetStep
<1>3. CASE OnEdited(e)
  <2> DEFINE S == IF e.plate = All THEN PlateId ELSE {e.plate}
  <2>1. e.kind = "Edited" /\ Forget(S)
    BY <1>3 DEF OnEdited
  <2>2. S \in SUBSET PlateId
    BY <1>1 DEF Mail
  <2> HIDE DEF S
  <2> QED
    BY <2>1, <2>2, ForgetStep
<1>4. CASE OnPlateFinished(e)
  BY <1>4, FinishedStep
<1>5. CASE OnLoaded(e)
  BY <1>5, LoadedStep
<1>6. CASE OnOutcome(e)
  BY <1>6, OutcomeStep
<1> QED
  BY <1>2, <1>3, <1>4, <1>5, <1>6 DEF Deliver

-----------------------------------------------------------------------------
LEMMA OutInit_OutInv == OutInit => OutInv
<1> SUFFICES ASSUME OutInit PROVE OutInv
  OBVIOUS
<1>1. TypeOK
  BY DEF OutInit, Init, TypeOK, Phase
<1>2. channel = <<>> /\ inbox = <<>> /\ ready = {} /\ handles = {}
  BY DEF OutInit
<1>3. Mails = {} /\ Calls = {}
  BY <1>2 DEF Mails, Calls, In
<1>4. Active = {} /\ Used = {} /\ \A j \in Job : phase[j] = "idle" /\ done[j] = 0
  BY <1>2 DEF OutInit, Init, Active, Used
<1>5. ~Clicked /\ ~Preparing
  BY Zenon DEF OutInit, Clicked, Preparing
<1>6. Slices
  <2>1. Types
    BY <1>2, OutputAssumption DEF OutInit, Types, PlateId, JobOrNone
  <2>2. MailInOrder /\ CallsInOrder
    BY <1>2 DEF MailInOrder, CallsInOrder
  <2>3. JobOK /\ MailOK
    BY <1>2, <1>3, <1>4 DEF JobOK, MailOK
  <2>4. Numbered
    <3>1. Used = 1..0
      BY <1>4
    <3> QED
      BY <3>1 DEF Numbered
  <2> QED
    BY <2>1, <2>2, <2>3, <2>4 DEF Slices
<1>7. Turns
  BY <1>2, <1>3, <1>4, <1>5 DEF Turns, ClickWaits, PreparesAlone, ReadyAlone, ActiveAlone, OneTold, Called, Told
<1>8. Previews
  <2>1. \A p \in PlateId : preview[p] = NoJob
    BY DEF OutInit
  <2>2. CallsOK /\ CacheOK /\ LoadsFirst /\ LoadedIsNew /\ FinishedIsNew /\ DroppedIsGone
    BY <1>3, <2>1 DEF CallsOK, CacheOK, LoadsFirst, LoadedIsNew, FinishedIsNew, DroppedIsGone, Called
  <2>3. Emptied
    BY <1>3, <1>4 DEF Emptied, ToldOf
  <2>4. Owned
    BY <1>2, <1>3, <2>1, OutputAssumption DEF Owned, ToldOf, CalledFor
  <2> QED
    BY <2>2, <2>3, <2>4 DEF Previews
<1> QED
  BY <1>1, <1>6, <1>7, <1>8 DEF OutInv

(* The jobs take the lifecycle's steps. *)
LEMMA OutNextIsNext == OutNext => [Next]_vars
<1> SUFFICES ASSUME OutNext PROVE [Next]_vars
  OBVIOUS
<1>1. ASSUME NEW j \in Job, StartReady(j) \/ CancelReady(j) \/ Work(j) PROVE Next
  BY <1>1 DEF StartReady, CancelReady, Work, Next, Advance
<1>2. ASSUME NEW j \in Job, ReadPlate(j) PROVE UNCHANGED vars
  BY <1>2, Zenon DEF ReadPlate
<1>3. CASE ClickSlice \/ Deliver \/ EditProject \/ EmitEdit \/ AddPlate \/ RunLoad \/ RunDrop
           \/ \E p \in PlateId : EditPlate(p) \/ RemovePlate(p)
  <2>1. UNCHANGED sliceVars
    BY <1>3, Zenon DEF ClickSlice, Deliver, EditProject, EmitEdit, AddPlate, RunLoad, RunDrop, EditPlate, RemovePlate
  <2> QED
    BY <2>1, Zenon DEF sliceVars
<1>4. CASE RunSlice \/ RejectSlice
  BY <1>4, Zenon DEF RunSlice, RejectSlice
<1>5. ASSUME NEW S \in SUBSET live, ChangeUnheard(S) PROVE UNCHANGED vars
  BY <1>5, Zenon DEF ChangeUnheard, sliceVars
<1> QED
  BY <1>1, <1>2, <1>3, <1>4, <1>5 DEF OutNext

LEMMA OutInv_Step == OutInv /\ [OutNext]_outVars => OutInv'
<1> SUFFICES ASSUME OutInv, [OutNext]_outVars PROVE OutInv'
  OBVIOUS
<1>1. TypeOK'
  <2>1. [Next]_vars
    BY OutNextIsNext, Zenon DEF outVars, sliceVars
  <2> QED
    BY <2>1, TypeStep DEF OutInv
<1>2. Slices' /\ Turns' /\ Previews'
  <2>1. CASE ClickSlice \/ Deliver \/ EmitEdit \/ RunLoad \/ RunDrop \/ RunSlice \/ RejectSlice
    BY <2>1, ClickStep, DeliverStep, EmitEditStep, RunLoadStep, RunDropStep, RunSliceStep, RejectStep
  <2>2. ASSUME NEW p \in PlateId, EditPlate(p) \/ RemovePlate(p) PROVE Slices' /\ Turns' /\ Previews'
    <3>1. live' \subseteq PlateId /\ unsent' \subseteq PlateId \cup {All}
      BY <2>2 DEF EditPlate, RemovePlate, OutInv, Slices, Types
    <3>2. UNCHANGED sliceVars /\ UNCHANGED pageVars /\ UNCHANGED <<channel, inbox, handles>>
      BY <2>2, Zenon DEF EditPlate, RemovePlate
    <3> QED
      BY <3>1, <3>2, EditStep, Zenon DEF sliceVars, vars, pageVars
  <2>3. ASSUME EditProject \/ AddPlate PROVE Slices' /\ Turns' /\ Previews'
    <3>1. live' \subseteq PlateId /\ unsent' \subseteq PlateId \cup {All}
      BY <2>3 DEF EditProject, AddPlate, OutInv, Slices, Types
    <3>2. UNCHANGED sliceVars /\ UNCHANGED pageVars /\ UNCHANGED <<channel, inbox, handles>>
      BY <2>3, Zenon DEF EditProject, AddPlate
    <3> QED
      BY <3>1, <3>2, EditStep, Zenon DEF sliceVars, vars, pageVars
  <2>4. ASSUME NEW j \in Job, ReadPlate(j) \/ StartReady(j) \/ CancelReady(j) \/ Work(j)
        PROVE Slices' /\ Turns' /\ Previews'
    <3>1. CASE ReadPlate(j) \/ StartReady(j)
      BY <3>1, ReadPlateStep, StartReadyStep
    <3>2. CASE CancelReady(j)
      <4>1. live' \subseteq PlateId /\ unsent' \subseteq PlateId \cup {All}
        BY <3>2 DEF CancelReady, editVars, OutInv, Slices, Types
      <4>2. UNCHANGED pageVars /\ UNCHANGED <<channel, inbox, handles, preparing, ready, target, phase, total, done>>
        BY <3>2, Zenon DEF CancelReady, Ask
      <4> QED
        BY <4>1, <4>2, EditStep, Zenon DEF pageVars
    <3>3. CASE Work(j)
      <4>1. StartPlate(j) \/ FinishPlate(j) \/ Finish(j) \/ Fail(j) \/ Cancel(j)
        BY <3>3 DEF Work
      <4> QED
        BY <3>3, <4>1, StartPlateStep, FinishPlateStep, EndStep
    <3> QED
      BY <2>4, <3>1, <3>2, <3>3
  <2>6. ASSUME NEW S \in SUBSET live, ChangeUnheard(S) PROVE Slices' /\ Turns' /\ Previews'
    <3>1. live' \subseteq PlateId /\ unsent' \subseteq PlateId \cup {All}
      BY <2>6 DEF ChangeUnheard, OutInv, Slices, Types
    <3>2. UNCHANGED sliceVars /\ UNCHANGED pageVars /\ UNCHANGED <<channel, inbox, handles>>
      BY <2>6, Zenon DEF ChangeUnheard
    <3> QED
      BY <3>1, <3>2, EditStep, Zenon DEF sliceVars, vars, pageVars
  <2>5. CASE UNCHANGED outVars
    <3>1. live' \subseteq PlateId /\ unsent' \subseteq PlateId \cup {All}
      BY <2>5 DEF outVars, editVars, OutInv, Slices, Types
    <3> QED
      BY <2>5, <3>1, EditStep, Zenon DEF outVars, sliceVars, vars, pageVars
  <2> QED
    BY <2>1, <2>2, <2>3, <2>4, <2>5, <2>6 DEF OutNext
<1> QED
  BY <1>1, <1>2 DEF OutInv

(* Every preview the registry holds is cached by the page, on its way to    *)
(* it, or about to be dropped, and nothing that is cached was dropped       *)
(* (useSlicePreviewBridge.ts:59-131, preview/registry.rs): for any number   *)
(* of plates, jobs, edits and cancels.                                      *)
THEOREM HandlesAreOwned == OutSpec => []HandlesOwned
<1>1. OutInv => HandlesOwned
  <2> SUFFICES ASSUME OutInv PROVE HandlesOwned
    OBVIOUS
  <2> DEFINE Sent(kind, queue) == {queue[i].job : i \in {k \in DOMAIN queue : queue[k].kind = kind}}
             cached == {preview[p] : p \in PlateId} \ {NoJob}
  <2>0. channel \in Seq(Mail) /\ inbox \in Seq(Call) /\ handles \subseteq Job
    BY DEF OutInv, Slices, Types
  <2>1. \A j : j \in Sent("Loaded", channel) <=> ToldOf("Loaded", j)
    BY <2>0 DEF ToldOf, Mails, In
  <2>2. \A j : j \in Sent("drop", inbox) <=> CalledFor("drop", j)
    BY <2>0 DEF CalledFor, Calls, In
  <2>3. \A j : j \in cached <=> j # NoJob /\ \E p \in PlateId : preview[p] = j
    OBVIOUS
  <2>4. cached \subseteq Job
    BY <2>3 DEF OutInv, Previews, CacheOK
  <2>5. \A j : ToldOf("Loaded", j) \/ CalledFor("drop", j) => j \in Job
    BY DEF OutInv, Slices, Previews, MailOK, CallsOK, ToldOf, CalledFor
  <2> HIDE DEF Sent, cached
  <2>6. handles = cached \cup Sent("Loaded", channel) \cup Sent("drop", inbox)
    <3> SUFFICES ASSUME NEW j \in Job
                 PROVE j \in handles <=> j \in cached \/ j \in Sent("Loaded", channel) \/ j \in Sent("drop", inbox)
      BY <2>0, <2>1, <2>2, <2>4, <2>5
    <3> QED
      BY <2>1, <2>2, <2>3, OutputAssumption DEF OutInv, Previews, Owned
  <2> QED
    BY <2>6 DEF HandlesOwned, Sent, cached
<1> QED
  BY <1>1, OutInit_OutInv, OutInv_Step, PTL DEF OutSpec

-----------------------------------------------------------------------------
(* What is sent and shown.  The path, the preview that is cached and those  *)
(* that are on their way are of one slice; a later slice that has begun has *)
(* been told, or its start is on its way; and what has become of the plate  *)
(* since a slice read it is noted, about to be told, or on its way.         *)
Begun(j) == log[j] # <<>> /\ log[j][1].kind = "PlateStarted"

(* An edit of p that the page has not heard of behind the i-th message. *)
Covered(i, p) ==
  \/ unsent \cap {p, All} # {}
  \/ \E k \in 1..Len(channel) :
       k > i /\ channel[k].kind = "Edited" /\ channel[k].plate \in {p, All}

Current(p, j) == content[p] = snapshot[j] \/ j \in overtaken

EditTypes ==
  /\ live \in (SUBSET PlateId) \ {{}} /\ unbound \subseteq live
  /\ content \in [PlateId -> 0..MaxEdits] /\ clock \in 0..MaxEdits
  /\ unsent \in {{}} \cup {{p} : p \in PlateId \cup {All}}
  /\ snapshot \in [Job -> 0..MaxEdits] /\ overtaken \subseteq Job
  /\ path \in [PlateId -> JobOrNone]
PathOK ==
  \A p \in PlateId : path[p] # NoJob =>
    path[p] \in Job /\ target[path[p]] = p /\ done[path[p]] = 1
OneIsShown ==
  /\ \A p \in PlateId : preview[p] # NoJob => path[p] \in {NoJob, preview[p]}
  /\ \A m \in Mails : m.kind = "Loaded" => path[m.plate] \in {NoJob, m.job}
  /\ \A c \in Calls : c.kind = "load" => path[c.plate] \in {NoJob, c.job}
IdleIsSilent == \A j \in Job : phase[j] = "idle" => log[j] = <<>>
Latest ==
  /\ \A j \in ready \cup Active : \A k \in Used : k <= j
  /\ \A m \in Mails : m.kind \in Plates => \A k \in Used : k <= m.job
Superseded ==
  \A p \in PlateId : \A j \in Job :
    /\ path[p] # NoJob /\ path[p] < j /\ target[j] = p /\ Begun(j)
    => ToldOf("PlateStarted", j)
ReadIsCurrent ==
  \A j \in ready \cup Active : done[j] = 0 => Current(target[j], j)
ToldIsCurrent ==
  \A i \in 1..Len(channel) :
    /\ channel[i].kind = "PlateFinished" /\ channel[i].plate \in live \ unbound
    => Current(channel[i].plate, channel[i].job) \/ Covered(i, channel[i].plate)
KeptIsCurrent ==
  \A p \in live \ unbound : path[p] # NoJob => Current(p, path[p]) \/ Covered(0, p)

Shown == PathOK /\ OneIsShown
Order == IdleIsSilent /\ Latest /\ Superseded
Fresh == ReadIsCurrent /\ ToldIsCurrent /\ KeptIsCurrent
SentInv == OutInv /\ EditTypes /\ Shown /\ Order /\ Fresh

LEMMA EditTypesKept ==
  ASSUME OutInv, EditTypes, OutNext
  PROVE  EditTypes'
<1>1. /\ MaxEdits \in Nat /\ Job \subseteq Nat /\ live \subseteq PlateId /\ ready \subseteq Job
      /\ target \in [Job -> PlateId]
  BY OutputAssumption DEF OutInv, Slices, Types
<1>2. \A p : Reading(p) \subseteq Job
  BY <1>1 DEF Reading
<1>3. ASSUME NEW S \in SUBSET PlateId, Touch(S)
      PROVE  content' \in [PlateId -> 0..MaxEdits] /\ clock' \in 0..MaxEdits /\ overtaken' \subseteq Job
  <2>1. clock + 1 \in 0..MaxEdits
    BY <1>1, <1>3 DEF Touch, Stamp, EditTypes
  <2>2. UNION {Reading(p) : p \in S} \subseteq Job
    BY <1>2
  <2> QED
    BY <1>3, <2>1, <2>2 DEF Touch, Stamp, EditTypes
<1>4. ASSUME NEW p \in PlateId, EditPlate(p) PROVE EditTypes'
  <2>1. UNCHANGED sliceVars /\ UNCHANGED pageVars
    BY <1>4, Zenon DEF EditPlate
  <2>2. UNCHANGED snapshot /\ UNCHANGED path
    BY <2>1, Zenon DEF sliceVars, pageVars
  <2>3. content' \in [PlateId -> 0..MaxEdits] /\ clock' \in 0..MaxEdits /\ overtaken' \subseteq Job
    BY <1>3, <1>4 DEF EditPlate
  <2>4. live' = live /\ unsent' = {p} /\ unbound' \in {unbound, unbound \ {p}}
    BY <1>4 DEF EditPlate
  <2> QED
    BY <2>2, <2>3, <2>4 DEF EditTypes
<1>5. ASSUME NEW p \in PlateId, RemovePlate(p) PROVE EditTypes'
  <2>1. UNCHANGED sliceVars /\ UNCHANGED pageVars
    BY <1>5, Zenon DEF RemovePlate
  <2>2. UNCHANGED snapshot /\ UNCHANGED path
    BY <2>1, Zenon DEF sliceVars, pageVars
  <2>3. UNCHANGED <<content, clock, unsent>> /\ overtaken' = overtaken \cup Reading(p)
    BY <1>5 DEF RemovePlate
  <2>4. p \in live /\ live # {p} /\ live' = live \ {p} /\ unbound' = unbound \ {p}
    BY <1>5 DEF RemovePlate
  <2> QED
    BY <1>2, <2>2, <2>3, <2>4 DEF EditTypes
<1>6. ASSUME EditProject PROVE EditTypes'
  <2>1. UNCHANGED sliceVars /\ UNCHANGED pageVars
    BY <1>6, Zenon DEF EditProject
  <2>2. UNCHANGED snapshot /\ UNCHANGED path
    BY <2>1, Zenon DEF sliceVars, pageVars
  <2>3. content' \in [PlateId -> 0..MaxEdits] /\ clock' \in 0..MaxEdits /\ overtaken' \subseteq Job
    BY <1>1, <1>3, <1>6 DEF EditProject
  <2>4. live' = live /\ unsent' = {All} /\ unbound' = unbound
    BY <1>6 DEF EditProject
  <2> QED
    BY <2>2, <2>3, <2>4 DEF EditTypes
<1>7. ASSUME AddPlate PROVE EditTypes'
  <2> DEFINE p == Max(live) + 1
  <2>1. UNCHANGED sliceVars /\ UNCHANGED pageVars
    BY <1>7, Zenon DEF AddPlate
  <2>2. UNCHANGED snapshot /\ UNCHANGED path
    BY <2>1, Zenon DEF sliceVars, pageVars
  <2>3. p \in PlateId /\ Touch({p}) /\ live' = live \cup {p}
    BY <1>7 DEF AddPlate
  <2>4. \/ unsent' = {p} /\ unbound' = unbound
        \/ unsent' = unsent /\ unbound' = unbound \cup {p}
    BY <1>7 DEF AddPlate
  <2> HIDE DEF p
  <2>5. content' \in [PlateId -> 0..MaxEdits] /\ clock' \in 0..MaxEdits /\ overtaken' \subseteq Job
    BY <1>3, <2>3
  <2>6. live' \in (SUBSET PlateId) \ {{}}
    <3>1. live' \in SUBSET PlateId /\ p \in live'
      BY <1>1, <2>3
    <3>2. live' # {}
      BY <3>1
    <3> QED
      BY <3>1, <3>2, Zenon
  <2>7. unbound' \subseteq live'
    BY <2>3, <2>4 DEF EditTypes
  <2>8. unsent' \in {{}} \cup {{q} : q \in PlateId \cup {All}}
    BY <2>3, <2>4 DEF EditTypes
  <2> QED
    BY <2>2, <2>5, <2>6, <2>7, <2>8 DEF EditTypes
<1>8. ASSUME Deliver PROVE EditTypes'
  <2> DEFINE e == Head(channel)
  <2>1. UNCHANGED editVars /\ UNCHANGED sliceVars
    BY <1>8, Zenon DEF Deliver
  <2>2. UNCHANGED <<live, unbound, content, clock, unsent, overtaken, snapshot>>
    BY <2>1, Zenon DEF editVars, sliceVars
  <2>3. e.kind = "PlateFinished" => e.job \in Job
    <3>1. e \in Mails
      BY <1>8, Delivered
    <3> QED
      BY <3>1 DEF OutInv, Slices, MailOK, Plates
  <2>4. path' \in [PlateId -> JobOrNone]
    BY <1>8, <2>3 DEF Deliver, OnPlateStarted, OnPlateFinished, OnLoaded, OnEdited, OnOutcome, Forget,
       Without, EditTypes, JobOrNone
  <2> QED
    BY <2>2, <2>4 DEF EditTypes
<1>9. ASSUME NEW j \in Job, ReadPlate(j) PROVE EditTypes'
  <2>1. UNCHANGED editVars /\ UNCHANGED pageVars
    BY <1>9, Zenon DEF ReadPlate
  <2>2. UNCHANGED <<live, unbound, content, clock, unsent, overtaken, path>>
    BY <2>1, Zenon DEF editVars, pageVars
  <2>3. snapshot' \in [Job -> 0..MaxEdits]
    BY <1>1, <1>9 DEF ReadPlate, EditTypes
  <2> QED
    BY <2>2, <2>3 DEF EditTypes
<1>10. ASSUME EmitEdit PROVE EditTypes'
  <2>1. UNCHANGED sliceVars /\ UNCHANGED pageVars
    BY <1>10, Zenon DEF EmitEdit
  <2>2. UNCHANGED snapshot /\ UNCHANGED path
    BY <2>1, Zenon DEF sliceVars, pageVars
  <2>3. unsent' = {} /\ UNCHANGED <<live, unbound, content, clock, overtaken>>
    BY <1>10 DEF EmitEdit
  <2> QED
    BY <2>2, <2>3 DEF EditTypes
<1>11. ASSUME UNCHANGED editVars, UNCHANGED <<snapshot, path>> PROVE EditTypes'
  BY <1>11 DEF editVars, EditTypes
<1>12. ASSUME ClickSlice \/ RunLoad \/ RunDrop \/ RunSlice \/ RejectSlice
              \/ \E j \in Job : StartReady(j) \/ CancelReady(j) \/ Work(j)
       PROVE  EditTypes'
  <2>1. UNCHANGED editVars /\ UNCHANGED snapshot /\ UNCHANGED path
    BY <1>12, Zenon DEF ClickSlice, RunLoad, RunDrop, RunSlice, RejectSlice, StartReady, CancelReady, Work,
       sliceVars, pageVars
  <2> QED
    BY <1>11, <2>1
<1>13. ASSUME NEW S \in SUBSET live, ChangeUnheard(S) PROVE EditTypes'
  <2>1. UNCHANGED sliceVars /\ UNCHANGED pageVars /\ UNCHANGED <<live, unbound, unsent>>
    BY <1>13, Zenon DEF ChangeUnheard
  <2>2. UNCHANGED snapshot /\ UNCHANGED path
    BY <2>1, Zenon DEF sliceVars, pageVars
  <2>3. clock + 1 \in 0..MaxEdits
    BY <1>1, <1>13 DEF ChangeUnheard, Stamp, EditTypes
  <2>4. content' \in [PlateId -> 0..MaxEdits] /\ clock' \in 0..MaxEdits
    BY <1>13, <2>3 DEF ChangeUnheard, Stamp, EditTypes
  <2>5. overtaken' \subseteq Job
    BY <1>1, <1>13 DEF ChangeUnheard, Used, EditTypes
  <2> QED
    BY <2>1, <2>2, <2>4, <2>5 DEF EditTypes
<1> QED
  BY <1>4, <1>5, <1>6, <1>7, <1>8, <1>9, <1>10, <1>12, <1>13, Zenon DEF OutNext

(* An edit of the plates S, or one that takes them away: the slices that    *)
(* are reading them are noted as overtaken, and the plates that are left    *)
(* are about to be told of.                                                 *)
LEMMA Edited ==
  ASSUME SentInv, NEW S \in SUBSET PlateId,
         UNCHANGED <<phase, done, log, ready, target, snapshot, channel, inbox, path, preview>>,
         unsent = {},
         overtaken' = overtaken \cup UNION {Reading(p) : p \in S},
         \A p \in PlateId \ S : content'[p] = content[p],
         \A p \in live' \ unbound' : /\ p \in S => unsent' \cap {p, All} # {}
                                     /\ p \notin S => p \in live \ unbound
  PROVE  Shown' /\ Order' /\ Fresh'
<1>1. Mails' = Mails /\ Calls' = Calls /\ Active' = Active /\ Used' = Used
  BY DEF Mails, Calls, Active, Used
<1>2. /\ Job \subseteq Nat /\ live \subseteq PlateId /\ ready \subseteq Job /\ target \in [Job -> PlateId]
      /\ channel \in Seq(Mail)
  BY OutputAssumption DEF SentInv, OutInv, Slices, Types
<1>3. Shown'
  BY <1>1 DEF SentInv, Shown, PathOK, OneIsShown
<1>4. Order'
  <2>1. IdleIsSilent' /\ Latest'
    BY <1>1 DEF SentInv, Order, IdleIsSilent, Latest
  <2>2. Superseded'
    BY <1>1 DEF SentInv, Order, Superseded, Begun, ToldOf
  <2> QED
    BY <2>1, <2>2 DEF Order
<1>5. \A p \in PlateId \ S : \A j : Current(p, j) => Current(p, j)'
  BY DEF Current
<1>6. \A p \in PlateId \ S : \A i : Covered(i, p) => Covered(i, p)'
  BY DEF Covered
<1>7. \A p \in S \cap (live' \ unbound') : \A i : Covered(i, p)'
  BY DEF Covered
<1>8. ReadIsCurrent'
  <2> SUFFICES ASSUME NEW j \in ready \cup Active, done[j] = 0 PROVE Current(target[j], j)'
    BY <1>1 DEF ReadIsCurrent
  <2>1. CASE target[j] \in S
    <3>1. j \in Reading(target[j])
      BY <1>2 DEF Reading, Active
    <3> QED
      BY <2>1, <3>1 DEF Current
  <2>2. CASE target[j] \notin S
    <3>1. j \in Job /\ target[j] \in PlateId /\ Current(target[j], j)
      BY <1>2 DEF Active, SentInv, Fresh, ReadIsCurrent
    <3> QED
      BY <2>2, <3>1, <1>5
  <2> QED
    BY <2>1, <2>2
<1>9. ToldIsCurrent'
  <2> SUFFICES ASSUME NEW i \in 1..Len(channel), channel[i].kind = "PlateFinished",
                      channel[i].plate \in live' \ unbound'
               PROVE  Current(channel[i].plate, channel[i].job)' \/ Covered(i, channel[i].plate)'
    BY DEF ToldIsCurrent
  <2>1. CASE channel[i].plate \in S
    BY <2>1, <1>7
  <2>2. CASE channel[i].plate \notin S
    <3>1. channel[i].plate \in PlateId /\ channel[i].plate \in live \ unbound
      BY <1>2, <2>2
    <3>2. Current(channel[i].plate, channel[i].job) \/ Covered(i, channel[i].plate)
      BY <3>1 DEF SentInv, Fresh, ToldIsCurrent
    <3> QED
      BY <2>2, <3>1, <3>2, <1>5, <1>6
  <2> QED
    BY <2>1, <2>2
<1>10. KeptIsCurrent'
  <2> SUFFICES ASSUME NEW p \in live' \ unbound', path[p] # NoJob
               PROVE  Current(p, path[p])' \/ Covered(0, p)'
    BY DEF KeptIsCurrent
  <2>1. CASE p \in S
    BY <2>1, <1>7
  <2>2. CASE p \notin S
    <3>1. p \in PlateId /\ p \in live \ unbound
      BY <1>2, <2>2
    <3>2. Current(p, path[p]) \/ Covered(0, p)
      BY <3>1 DEF SentInv, Fresh, KeptIsCurrent
    <3> QED
      BY <2>2, <3>1, <3>2, <1>5, <1>6
  <2> QED
    BY <2>1, <2>2
<1> QED
  BY <1>3, <1>4, <1>8, <1>9, <1>10 DEF Fresh

LEMMA EditSteps ==
  ASSUME SentInv, EditProject \/ AddPlate \/ \E p \in PlateId : EditPlate(p) \/ RemovePlate(p)
  PROVE  Shown' /\ Order' /\ Fresh'
<1>1. live \subseteq PlateId
  BY DEF SentInv, OutInv, Slices, Types
<1>2. UNCHANGED sliceVars /\ UNCHANGED pageVars /\ UNCHANGED <<channel, inbox>> /\ unsent = {}
  BY Zenon DEF EditProject, AddPlate, EditPlate, RemovePlate, MainThreadFree
<1>3. UNCHANGED <<phase, done, log, ready, target, snapshot, channel, inbox, path, preview>>
  BY <1>2, Zenon DEF sliceVars, vars, pageVars
<1>4. ASSUME NEW S \in SUBSET PlateId, Touch(S)
      PROVE  /\ overtaken' = overtaken \cup UNION {Reading(p) : p \in S}
             /\ \A p \in PlateId \ S : content'[p] = content[p]
  BY <1>4 DEF Touch, Stamp
<1>5. ASSUME NEW p \in PlateId, EditPlate(p) PROVE Shown' /\ Order' /\ Fresh'
  <2>1. {p} \in SUBSET PlateId /\ Touch({p})
    BY <1>5 DEF EditPlate
  <2>2. \A q \in live' \ unbound' : /\ q \in {p} => unsent' \cap {q, All} # {}
                                    /\ q \notin {p} => q \in live \ unbound
    <3>1. live' = live /\ unsent' = {p} /\ unbound' \in {unbound, unbound \ {p}}
      BY <1>5 DEF EditPlate
    <3> QED
      BY <3>1
  <2> QED
    BY <1>2, <1>3, <1>4, <2>1, <2>2, Edited
<1>6. ASSUME NEW p \in PlateId, RemovePlate(p) PROVE Shown' /\ Order' /\ Fresh'
  <2>1. {p} \in SUBSET PlateId /\ UNION {Reading(q) : q \in {p}} = Reading(p)
    OBVIOUS
  <2>2. /\ overtaken' = overtaken \cup UNION {Reading(q) : q \in {p}}
        /\ \A q \in PlateId \ {p} : content'[q] = content[q]
    BY <1>6, <2>1 DEF RemovePlate
  <2>3. \A q \in live' \ unbound' : q \notin {p} /\ q \in live \ unbound
    BY <1>6 DEF RemovePlate
  <2> QED
    BY <1>2, <1>3, <2>1, <2>2, <2>3, Edited
<1>7. ASSUME EditProject PROVE Shown' /\ Order' /\ Fresh'
  <2>1. live \in SUBSET PlateId /\ Touch(live)
    BY <1>1, <1>7 DEF EditProject
  <2>2. \A q \in live' \ unbound' : /\ q \in live => unsent' \cap {q, All} # {}
                                    /\ q \notin live => q \in live \ unbound
    BY <1>7 DEF EditProject
  <2> QED
    BY <1>2, <1>3, <1>4, <2>1, <2>2, Edited
<1>8. ASSUME AddPlate PROVE Shown' /\ Order' /\ Fresh'
  <2> DEFINE p == Max(live) + 1
  <2>1. p \in PlateId /\ Touch({p}) /\ live' = live \cup {p}
    BY <1>8 DEF AddPlate
  <2>2. \/ unsent' = {p} /\ unbound' = unbound
        \/ unsent' = unsent /\ unbound' = unbound \cup {p}
    BY <1>8 DEF AddPlate
  <2> HIDE DEF p
  <2>3. \A q \in live' \ unbound' : /\ q \in {p} => unsent' \cap {q, All} # {}
                                    /\ q \notin {p} => q \in live \ unbound
    BY <2>1, <2>2
  <2>4. {p} \in SUBSET PlateId
    BY <2>1
  <2> QED
    BY <1>2, <1>3, <1>4, <2>1, <2>3, <2>4, Edited
<1> QED
  BY <1>5, <1>6, <1>7, <1>8

(* A change that no edit tells of: every slice that has read one of those   *)
(* plates is noted as overtaken, the ones whose output is kept included.    *)
LEMMA UnheardStep ==
  ASSUME SentInv, NEW S \in SUBSET live, ChangeUnheard(S)
  PROVE  Shown' /\ Order' /\ Fresh'
<1>1. /\ UNCHANGED <<phase, done, log, ready, target, snapshot, channel, inbox, path, preview>>
      /\ UNCHANGED <<live, unbound, unsent>>
  BY Zenon DEF ChangeUnheard, sliceVars, vars, pageVars
<1>2. /\ \A p \in PlateId \ S : content'[p] = content[p]
      /\ overtaken' = overtaken \cup {j \in Used : target[j] \in S}
  BY DEF ChangeUnheard, Stamp
<1>3. Mails' = Mails /\ Calls' = Calls /\ Active' = Active /\ Used' = Used
  BY <1>1 DEF Mails, Calls, Active, Used
<1>4. Shown' /\ Order'
  <2>1. Shown'
    BY <1>1, <1>3 DEF SentInv, Shown, PathOK, OneIsShown
  <2>2. IdleIsSilent' /\ Latest'
    BY <1>1, <1>3 DEF SentInv, Order, IdleIsSilent, Latest
  <2>3. Superseded'
    BY <1>1, <1>3 DEF SentInv, Order, Superseded, Begun, ToldOf
  <2> QED
    BY <2>1, <2>2, <2>3 DEF Order
<1>5. /\ ready \subseteq Job /\ live \subseteq PlateId /\ target \in [Job -> PlateId]
      /\ channel \in Seq(Mail)
  BY DEF SentInv, OutInv, Slices, Types
<1>6. ASSUME NEW j \in Used, Current(target[j], j) PROVE Current(target[j], j)'
  <2>1. j \in Job /\ target[j] \in PlateId /\ target'[j] = target[j] /\ snapshot'[j] = snapshot[j]
    BY <1>1, <1>5 DEF Used
  <2>2. CASE target[j] \in S
    BY <1>2, <2>1, <2>2 DEF Current
  <2>3. CASE target[j] \notin S
    BY <1>2, <1>6, <2>1, <2>3 DEF Current
  <2> QED
    BY <2>2, <2>3
<1>7. \A i, p : Covered(i, p) => Covered(i, p)'
  BY <1>1 DEF Covered
<1>8. \A j \in Job : done[j] = 1 => j \in Used
  BY DEF Used, SentInv, OutInv, Slices, JobOK
<1>9. ReadIsCurrent'
  <2> SUFFICES ASSUME NEW j \in ready \cup Active, done[j] = 0 PROVE Current(target[j], j)'
    BY <1>1, <1>3 DEF ReadIsCurrent
  <2>1. j \in Used
    BY DEF Used, Active
  <2>2. Current(target[j], j)
    BY DEF SentInv, Fresh, ReadIsCurrent
  <2> QED
    BY <1>6, <2>1, <2>2
<1>10. ToldIsCurrent'
  <2> SUFFICES ASSUME NEW i \in 1..Len(channel), channel[i].kind = "PlateFinished",
                      channel[i].plate \in live \ unbound
               PROVE  Current(channel[i].plate, channel[i].job)' \/ Covered(i, channel[i].plate)'
    BY <1>1 DEF ToldIsCurrent
  <2>1. Current(channel[i].plate, channel[i].job) \/ Covered(i, channel[i].plate)
    BY DEF SentInv, Fresh, ToldIsCurrent
  <2>2. channel[i] \in Mails
    BY <1>5 DEF Mails, In
  <2>3. channel[i].job \in Job /\ channel[i].plate = target[channel[i].job] /\ done[channel[i].job] = 1
    BY <2>2 DEF SentInv, OutInv, Slices, MailOK, Plates
  <2>4. channel[i].job \in Used
    BY <1>8, <2>3
  <2>5. CASE Current(channel[i].plate, channel[i].job)
    BY <1>1, <1>6, <2>3, <2>4, <2>5 DEF Current
  <2> QED
    BY <1>1, <1>7, <2>1, <2>5
<1>11. KeptIsCurrent'
  <2> SUFFICES ASSUME NEW p \in live \ unbound, path[p] # NoJob
               PROVE  Current(p, path[p])' \/ Covered(0, p)'
    BY <1>1 DEF KeptIsCurrent
  <2>1. Current(p, path[p]) \/ Covered(0, p)
    BY DEF SentInv, Fresh, KeptIsCurrent
  <2>2. path[p] \in Job /\ target[path[p]] = p /\ done[path[p]] = 1
    BY <1>5 DEF SentInv, Shown, PathOK
  <2>3. path[p] \in Used
    BY <1>8, <2>2
  <2>4. CASE Current(p, path[p])
    BY <1>1, <1>6, <2>2, <2>3, <2>4 DEF Current
  <2> QED
    BY <1>7, <2>1, <2>4
<1> QED
  BY <1>4, <1>9, <1>10, <1>11 DEF Fresh

-----------------------------------------------------------------------------
(* A step that neither edits nor delivers keeps what the page shows and     *)
(* what was said of it; it says more, starts no slice that is not told, and *)
(* finishes none but one that read the plate as it is.                      *)
LEMMA ShownKept ==
  ASSUME SentInv, UNCHANGED <<path, preview>>,
         \A j \in Job : done[j] = 1 => done'[j] = 1 /\ target'[j] = target[j],
         \A m \in Mails' : m.kind = "Loaded" =>
           m \in Mails \/ \E c \in Calls : c.kind = "load" /\ c.plate = m.plate /\ c.job = m.job,
         \A c \in Calls' : c.kind = "load" => c \in Calls
  PROVE  Shown'
<1>1. PathOK'
  BY DEF SentInv, Shown, PathOK
<1>2. OneIsShown'
  BY DEF SentInv, Shown, OneIsShown
<1> QED
  BY <1>1, <1>2 DEF Shown

LEMMA OrderKept ==
  ASSUME SentInv, UNCHANGED path, Mails \subseteq Mails',
         \A j \in Job : phase'[j] = "idle" => phase[j] = "idle" /\ log'[j] = log[j],
         \A j \in Job : Begun(j)' => Begun(j) \/ ToldOf("PlateStarted", j)',
         \A j \in Job : phase[j] # "idle" => target'[j] = target[j],
         Latest'
  PROVE  Order'
<1>1. IdleIsSilent'
  BY DEF SentInv, Order, IdleIsSilent
<1>2. Superseded'
  <2> SUFFICES ASSUME NEW p \in PlateId, NEW j \in Job, path[p] # NoJob, path[p] < j, target'[j] = p, Begun(j)'
               PROVE  ToldOf("PlateStarted", j)'
    BY DEF Superseded
  <2>1. CASE Begun(j)
    <3>1. phase[j] # "idle"
      BY <2>1 DEF SentInv, Order, IdleIsSilent, Begun
    <3>2. ToldOf("PlateStarted", j)
      BY <2>1, <3>1 DEF SentInv, Order, Superseded
    <3> QED
      BY <3>2 DEF ToldOf
  <2> QED
    BY <2>1
<1> QED
  BY <1>1, <1>2 DEF Order

(* What is said is said behind what was said before. *)
LEMMA FreshKept ==
  ASSUME SentInv, UNCHANGED <<live, unbound, content, overtaken, path>>,
         channel' \in Seq(Mail), Len(channel) <= Len(channel'),
         \A i \in 1..Len(channel) : channel'[i] = channel[i],
         \A i \in Len(channel) + 1..Len(channel') : \A m \in Mail :
           m = channel'[i] /\ m.kind = "PlateFinished" => Current(m.plate, m.job)',
         \A p \in PlateId : unsent \cap {p, All} # {} =>
           \/ unsent' \cap {p, All} # {}
           \/ \E k \in Len(channel) + 1..Len(channel') :
                channel'[k].kind = "Edited" /\ channel'[k].plate \in {p, All},
         \A j \in Job : phase[j] # "idle" => snapshot'[j] = snapshot[j],
         \A j \in ready' \cup Active' : done'[j] = 0 =>
           \/ j \in ready \cup Active /\ done[j] = 0 /\ target'[j] = target[j] /\ snapshot'[j] = snapshot[j]
           \/ Current(target[j], j)'
  PROVE  Fresh'
<1>1. channel \in Seq(Mail) /\ Len(channel) \in Nat /\ live \subseteq PlateId
  BY DEF SentInv, OutInv, Slices, Types
<1>2. \A p \in PlateId : \A i \in 0..Len(channel) : Covered(i, p) => Covered(i, p)'
  <2> SUFFICES ASSUME NEW p \in PlateId, NEW i \in 0..Len(channel), Covered(i, p) PROVE Covered(i, p)'
    OBVIOUS
  <2>1. CASE unsent \cap {p, All} # {}
    <3>1. CASE unsent' \cap {p, All} # {}
      BY <3>1 DEF Covered
    <3>2. ASSUME NEW k \in Len(channel) + 1..Len(channel'), channel'[k].kind = "Edited", channel'[k].plate \in {p, All}
          PROVE  Covered(i, p)'
      <4>1. k \in 1..Len(channel') /\ k > i
        BY <1>1
      <4> QED
        BY <3>2, <4>1 DEF Covered
    <3> QED
      BY <2>1, <3>1, <3>2
  <2>2. CASE unsent \cap {p, All} = {}
    <3>1. PICK k \in 1..Len(channel) : k > i /\ channel[k].kind = "Edited" /\ channel[k].plate \in {p, All}
      BY <2>2 DEF Covered
    <3>2. k \in 1..Len(channel') /\ channel'[k] = channel[k]
      BY <1>1
    <3> QED
      BY <3>1, <3>2 DEF Covered
  <2> QED
    BY <2>1, <2>2
<1>3. ReadIsCurrent'
  <2> SUFFICES ASSUME NEW j \in ready' \cup Active', done'[j] = 0,
                      j \in ready \cup Active, done[j] = 0, target'[j] = target[j], snapshot'[j] = snapshot[j]
               PROVE  Current(target[j], j)'
    BY DEF ReadIsCurrent
  <2>1. Current(target[j], j)
    BY DEF SentInv, Fresh, ReadIsCurrent
  <2> QED
    BY <2>1 DEF Current
<1>4. ToldIsCurrent'
  <2> SUFFICES ASSUME NEW i \in 1..Len(channel'), NEW m \in Mail, m = channel'[i], m.kind = "PlateFinished",
                      m.plate \in live \ unbound
               PROVE  Current(m.plate, m.job)' \/ Covered(i, m.plate)'
    <3>1. \A i \in 1..Len(channel') : channel'[i] \in Mail
      OBVIOUS
    <3> QED
      BY <3>1 DEF ToldIsCurrent
  <2>1. CASE i \in Len(channel) + 1..Len(channel')
    BY <2>1
  <2>2. CASE i \in 1..Len(channel)
    <3>1. channel[i] = m /\ i \in 0..Len(channel)
      BY <1>1, <2>2
    <3>2. Current(m.plate, m.job) \/ Covered(i, m.plate)
      BY <2>2, <3>1 DEF SentInv, Fresh, ToldIsCurrent
    <3>3. m.plate \in PlateId /\ m.job \in Job /\ phase[m.job] # "idle"
      <4>1. m \in Mails
        BY <2>2, <3>1 DEF Mails, In
      <4> QED
        BY <1>1, <4>1 DEF SentInv, OutInv, Slices, MailOK, Plates
    <3>4. Covered(i, m.plate) => Covered(i, m.plate)'
      BY <1>2, <3>1, <3>3
    <3>5. Current(m.plate, m.job) => Current(m.plate, m.job)'
      BY <3>3 DEF Current
    <3> QED
      BY <3>2, <3>4, <3>5
  <2> QED
    BY <1>1, <2>1, <2>2
<1>5. KeptIsCurrent'
  <2> SUFFICES ASSUME NEW p \in live \ unbound, path[p] # NoJob PROVE Current(p, path[p])' \/ Covered(0, p)'
    BY DEF KeptIsCurrent
  <2>1. p \in PlateId /\ path[p] \in Job /\ phase[path[p]] # "idle"
    BY <1>1 DEF SentInv, Shown, PathOK, OutInv, Slices, JobOK
  <2>2. Current(p, path[p]) \/ Covered(0, p)
    BY DEF SentInv, Fresh, KeptIsCurrent
  <2>3. 0 \in 0..Len(channel)
    BY <1>1
  <2>4. Covered(0, p) => Covered(0, p)'
    BY <1>2, <2>1, <2>3
  <2>5. Current(p, path[p]) => Current(p, path[p])'
    BY <2>1 DEF Current
  <2> QED
    BY <2>2, <2>4, <2>5
<1> QED
  BY <1>3, <1>4, <1>5 DEF Fresh

(* A step that says nothing, or nothing of a slice's plate. *)
LEMMA AsideStep ==
  ASSUME SentInv,
         UNCHANGED <<live, unbound, content, overtaken, path, preview, target, snapshot, done, log>>,
         \/ channel' = channel /\ unsent' = unsent
         \/ \E m \in Mail : /\ channel' = Append(channel, m) /\ m.kind \notin Plates
                            /\ m.kind = "Loaded" =>
                                 \E c \in Calls : c.kind = "load" /\ c.plate = m.plate /\ c.job = m.job
                            /\ unsent' = unsent \/ (m.kind = "Edited" /\ unsent = {m.plate}),
         ready' \cup Active' \subseteq ready \cup Active, Used' \subseteq Used,
         \A j \in Job : phase'[j] = "idle" => phase[j] = "idle",
         \A c \in Calls' : c.kind = "load" => c \in Calls
  PROVE  Shown' /\ Order' /\ Fresh'
<1>1. channel \in Seq(Mail) /\ Len(channel) \in Nat
  BY DEF SentInv, OutInv, Slices, Types
<1>2. CASE channel' = channel /\ unsent' = unsent
  <2>1. Mails' = Mails
    BY <1>2 DEF Mails
  <2>2. Shown'
    BY <2>1, ShownKept
  <2>3. Latest'
    BY <2>1 DEF SentInv, Order, Latest
  <2>4. \A j \in Job : Begun(j)' => Begun(j)
    BY DEF Begun
  <2>5. Order'
    BY <2>1, <2>3, <2>4, OrderKept
  <2>6. Len(channel) + 1..Len(channel') = {}
    BY <1>1, <1>2
  <2>7. Fresh'
    BY <1>1, <1>2, <2>6, FreshKept
  <2> QED
    BY <2>2, <2>5, <2>7
<1>3. ASSUME NEW m \in Mail, channel' = Append(channel, m), m.kind \notin Plates,
             m.kind = "Loaded" => \E c \in Calls : c.kind = "load" /\ c.plate = m.plate /\ c.job = m.job,
             unsent' = unsent \/ (m.kind = "Edited" /\ unsent = {m.plate})
      PROVE  Shown' /\ Order' /\ Fresh'
  <2>1. /\ channel' \in Seq(Mail) /\ Len(channel') = Len(channel) + 1 /\ Mails' = Mails \cup {m}
        /\ \A i \in 1..Len(channel) : channel'[i] = channel[i]
        /\ channel'[Len(channel) + 1] = m
    BY <1>1, <1>3, InAppend DEF Mails
  <2>2. Shown'
    BY <1>3, <2>1, ShownKept
  <2>3. Latest'
    BY <1>3, <2>1 DEF SentInv, Order, Latest
  <2>4. \A j \in Job : Begun(j)' => Begun(j)
    BY DEF Begun
  <2>5. Order'
    BY <2>1, <2>3, <2>4, OrderKept
  <2>6. Len(channel) + 1..Len(channel') = {Len(channel) + 1}
    BY <1>1, <2>1
  <2>7. \A i \in Len(channel) + 1..Len(channel') : channel'[i].kind # "PlateFinished"
    BY <1>3, <2>1, <2>6 DEF Plates
  <2>8. \A p \in PlateId : unsent \cap {p, All} # {} =>
           \/ unsent' \cap {p, All} # {}
           \/ \E k \in Len(channel) + 1..Len(channel') :
                channel'[k].kind = "Edited" /\ channel'[k].plate \in {p, All}
    BY <1>3, <2>1, <2>6
  <2>9. Len(channel) <= Len(channel')
    BY <1>1, <2>1
  <2>10. Fresh'
    BY <2>1, <2>7, <2>8, <2>9, FreshKept
  <2> QED
    BY <2>2, <2>5, <2>10
<1> QED
  BY <1>2, <1>3

LEMMA AsideSteps ==
  ASSUME SentInv, ClickSlice \/ RunLoad \/ RunDrop \/ RunSlice \/ RejectSlice \/ EmitEdit
                  \/ \E j \in Job : StartReady(j) \/ CancelReady(j)
  PROVE  Shown' /\ Order' /\ Fresh'
<1>1. OutInv /\ inbox \in Seq(Call)
  BY DEF SentInv, OutInv, Slices, Types
<1>2. UNCHANGED <<live, unbound, content, overtaken, path, preview, target, snapshot, done, log>>
  BY Zenon DEF ClickSlice, RunLoad, RunDrop, RunSlice, RejectSlice, EmitEdit, StartReady, CancelReady, Accept,
     Ask, sliceVars, editVars, pageVars, vars
<1>3. CASE \E j \in Job : StartReady(j) \/ CancelReady(j)
  <2>1. UNCHANGED <<channel, unsent, inbox>>
    BY <1>3, Zenon DEF StartReady, CancelReady, editVars
  <2>2. /\ ready' \cup Active' \subseteq ready \cup Active /\ Used' \subseteq Used
        /\ \A j \in Job : phase'[j] = "idle" => phase[j] = "idle"
    <3>1. PICK j \in Job : StartReady(j) \/ CancelReady(j)
      BY <1>3
    <3>2. CASE StartReady(j)
      <4>1. j \in ready /\ ready' = ready \ {j} /\ phase' = [phase EXCEPT ![j] = "between"]
        BY <3>2 DEF StartReady, Accept, Shift
      <4> QED
        BY <1>1, <4>1 DEF OutInv, TypeOK, Active, Used
    <3>3. CASE CancelReady(j)
      BY <3>3 DEF CancelReady, Ask, Active, Used
    <3> QED
      BY <3>1, <3>2, <3>3
  <2>3. Calls' = Calls
    BY <2>1 DEF Calls
  <2> QED
    BY <1>2, <2>1, <2>2, <2>3, AsideStep
<1>4. CASE ClickSlice \/ RunLoad \/ RunDrop \/ RunSlice \/ RejectSlice \/ EmitEdit
  <2>1. UNCHANGED <<phase, ready>>
    BY <1>4, Zenon DEF ClickSlice, RunLoad, RunDrop, RunSlice, RejectSlice, EmitEdit, sliceVars, vars
  <2>2. Active' = Active /\ Used' = Used
    BY <2>1 DEF Active, Used
  <2>3. CASE ClickSlice
    <3>1. UNCHANGED <<channel, unsent>>
      BY <2>3, Zenon DEF ClickSlice, editVars
    <3>2. Message("slice", All, NoJob) \in Call /\ inbox' = Append(inbox, Message("slice", All, NoJob))
      BY <2>3 DEF ClickSlice, Message, Call, JobOrNone
    <3>3. Calls' = Calls \cup {Message("slice", All, NoJob)}
      BY <1>1, <3>2, InAppend DEF Calls
    <3>4. \A c \in Calls' : c.kind = "load" => c \in Calls
      BY <3>3 DEF Message
    <3> QED
      BY <1>2, <2>1, <2>2, <3>1, <3>4, AsideStep
  <2>4. CASE RunSlice \/ RunDrop
    <3>1. UNCHANGED <<channel, unsent>>
      BY <2>4, Zenon DEF RunSlice, RunDrop, editVars
    <3>2. inbox # <<>> /\ inbox' = Tail(inbox)
      BY <2>4 DEF RunSlice, RunDrop, Run
    <3>3. Calls' \subseteq Calls
      BY <1>1, <3>2, InTail DEF Calls
    <3> QED
      BY <1>2, <2>1, <2>2, <3>1, <3>3, AsideStep
  <2>5. CASE RunLoad
    <3> DEFINE c == Head(inbox)
               m == Message("Loaded", c.plate, c.job)
    <3>1. unsent' = unsent
      BY <2>5, Zenon DEF RunLoad, editVars
    <3>2. inbox # <<>> /\ inbox' = Tail(inbox) /\ c.kind = "load"
      BY <2>5 DEF RunLoad, Run
    <3>3. Calls' \subseteq Calls /\ c \in Calls /\ c \in Call
      BY <1>1, <3>2, InTail DEF Calls
    <3>4. /\ m \in Mail /\ m.kind \notin Plates /\ m.kind = "Loaded" /\ c.plate = m.plate /\ c.job = m.job
      BY <3>3 DEF Message, Mail, Call, Plates
    <3>5. channel' = channel \/ channel' = Append(channel, m)
      BY <2>5 DEF RunLoad, Send
    <3> HIDE DEF c, m
    <3> QED
      BY <1>2, <2>1, <2>2, <3>1, <3>2, <3>3, <3>4, <3>5, AsideStep
  <2>6. CASE RejectSlice
    <3> DEFINE m == Message("Rejected", All, NoJob)
    <3>1. UNCHANGED <<unsent, inbox>>
      BY <2>6, Zenon DEF RejectSlice, editVars
    <3>2. channel' = Append(channel, m)
      BY <2>6 DEF RejectSlice, Send
    <3>3. m \in Mail /\ m.kind \notin Plates /\ m.kind # "Loaded"
      BY DEF Message, Mail, Plates, JobOrNone, Story, Outcome
    <3>4. Calls' = Calls
      BY <3>1 DEF Calls
    <3> HIDE DEF m
    <3> QED
      BY <1>2, <2>1, <2>2, <3>1, <3>2, <3>3, <3>4, AsideStep
  <2>7. CASE EmitEdit
    <3>1. PICK p \in unsent : Send("Edited", p, NoJob)
      BY <2>7 DEF EmitEdit
    <3> DEFINE m == Message("Edited", p, NoJob)
    <3>2. UNCHANGED inbox
      BY <2>7, Zenon DEF EmitEdit
    <3>3. channel' = Append(channel, m)
      BY <3>1 DEF Send
    <3>4. p \in PlateId \cup {All} /\ unsent = {p}
      BY DEF SentInv, EditTypes
    <3>5. m \in Mail /\ m.kind \notin Plates /\ m.kind # "Loaded" /\ m.kind = "Edited" /\ m.plate = p
      BY <3>4 DEF Message, Mail, Plates, JobOrNone
    <3>6. Calls' = Calls
      BY <3>2 DEF Calls
    <3> HIDE DEF m
    <3> QED
      BY <1>2, <2>1, <2>2, <3>3, <3>4, <3>5, <3>6, AsideStep
  <2> QED
    BY <1>4, <2>3, <2>4, <2>5, <2>6, <2>7
<1> QED
  BY <1>3, <1>4

(* The slice reads the plate as it is, and is the latest.  No message and   *)
(* no path is of it yet.                                                    *)
LEMMA PlateReadStep ==
  ASSUME SentInv, NEW j \in Job, ReadPlate(j)
  PROVE  Shown' /\ Order' /\ Fresh'
<1>1. /\ channel \in Seq(Mail) /\ Len(channel) \in Nat /\ Job \subseteq Nat /\ ready \subseteq Job
      /\ target \in [Job -> PlateId] /\ snapshot \in [Job -> 0..MaxEdits]
  BY OutputAssumption DEF SentInv, EditTypes, OutInv, Slices, Types
<1>2. UNCHANGED vars /\ UNCHANGED editVars /\ UNCHANGED pageVars /\ UNCHANGED <<inbox, channel>> /\ preparing
  BY Zenon DEF ReadPlate
<1>3. UNCHANGED <<phase, done, log, live, unbound, content, overtaken, unsent, path, preview, inbox, channel>>
  BY <1>2, Zenon DEF vars, editVars, pageVars
<1>4. Mails' = Mails /\ Calls' = Calls /\ Active' = Active /\ ready' = ready \cup {j} /\ Used' = Used \cup {j}
  BY <1>3 DEF ReadPlate, Mails, Calls, Active, Used
<1>5. ready = {} /\ Active = {} /\ ~Told(Plates)
  <2>1. Preparing
    BY <1>2, Zenon DEF Preparing
  <2> QED
    BY <2>1 DEF SentInv, OutInv, Turns, PreparesAlone, Resting, Told, Story
<1>6. (\A k \in Used : k < j) /\ phase[j] = "idle"
  <2>1. PICK n \in Nat : Used = 1..n
    BY DEF SentInv, OutInv, Slices, Numbered
  <2>2. Cardinality(Used) = n
    BY <2>1, FS_Interval
  <2>3. j = n + 1
    BY <2>2 DEF ReadPlate
  <2>4. j \notin Used
    BY <2>1, <2>3
  <2> QED
    BY <2>1, <2>3, <2>4 DEF Used
<1>7. PICK p \in live \ unbound : /\ target' = [target EXCEPT ![j] = p]
                                  /\ snapshot' = [snapshot EXCEPT ![j] = content[p]]
  BY DEF ReadPlate
<1>8. \A k \in Job : k # j => target'[k] = target[k] /\ snapshot'[k] = snapshot[k]
  BY <1>1, <1>7
<1>9. \A k \in Job : phase[k] # "idle" \/ done[k] = 1 => k # j
  BY <1>6 DEF SentInv, OutInv, Slices, JobOK
<1>10. Shown'
  BY <1>3, <1>4, <1>8, <1>9, ShownKept
<1>11. Order'
  <2>1. Latest'
    <3>1. \A i \in (ready \cup Active)' : i = j
      BY <1>4, <1>5
    <3>2. \A k \in Used' : k <= j
      BY <1>1, <1>4, <1>6 DEF Used
    <3>3. \A m \in Mails' : m.kind \notin Plates
      BY <1>4, <1>5 DEF Told
    <3> QED
      BY <3>1, <3>2, <3>3 DEF Latest
  <2>2. \A k \in Job : Begun(k)' => Begun(k)
    BY <1>3 DEF Begun
  <2> QED
    BY <1>3, <1>4, <1>8, <1>9, <2>1, <2>2, OrderKept
<1>12. Fresh'
  <2>1. Len(channel) + 1..Len(channel') = {}
    BY <1>1, <1>3
  <2>2. Current(target[j], j)'
    <3>1. target'[j] = p /\ snapshot'[j] = content[p]
      BY <1>1, <1>7
    <3> QED
      BY <1>3, <3>1 DEF Current
  <2>3. \A k \in ready' \cup Active' : k = j
    BY <1>4, <1>5
  <2>4. channel' \in Seq(Mail) /\ Len(channel) <= Len(channel')
    BY <1>1, <1>3
  <2>5. \A k \in Job : phase[k] # "idle" => snapshot'[k] = snapshot[k]
    BY <1>8, <1>9
  <2>6. \A k \in ready' \cup Active' : Current(target[k], k)'
    BY <2>2, <2>3
  <2>7. \A i \in 1..Len(channel) : channel'[i] = channel[i]
    BY <1>3
  <2> QED
    BY <1>3, <2>1, <2>4, <2>5, <2>6, <2>7, FreshKept
<1> QED
  BY <1>10, <1>11, <1>12

(* The worker says of its plate that it has begun, that it has finished, or *)
(* how the job ends; when it has finished, it is of what the slice read.    *)
LEMMA WorkStep ==
  ASSUME SentInv, NEW j \in Job, Work(j)
  PROVE  Shown' /\ Order' /\ Fresh'
<1>0. OutInv /\ channel \in Seq(Mail) /\ Len(channel) \in Nat /\ Job \subseteq Nat
  BY OutputAssumption DEF SentInv, OutInv, Slices, Types
<1>1. /\ UNCHANGED <<inbox, ready, target, preview>> /\ Calls' = Calls
      /\ UNCHANGED <<live, unbound, content, overtaken, unsent, path, snapshot>>
  <2>1. UNCHANGED editVars /\ UNCHANGED pageVars /\ UNCHANGED snapshot
    BY Zenon DEF Work
  <2> QED
    BY <2>1, WorkLeaves, Zenon DEF editVars, pageVars
<1>2. PICK kind \in Kind, plate \in Nat :
        /\ Hear(j, kind, plate) /\ kind \in Story
        /\ kind = "PlateFinished" => FinishPlate(j)
        /\ kind = "PlateFinished" \/ UNCHANGED done
  <2>0. done[j] \in Nat /\ done[j] + 1 \in Nat /\ Kind \cap Story = Plates \cup Terminal
    BY <1>0 DEF OutInv, TypeOK, Kind, Story, Outcome, Plates, Chat, Terminal
  <2>1. CASE StartPlate(j)
    <3>1. Hear(j, "PlateStarted", done[j] + 1) /\ UNCHANGED done
      BY <2>1 DEF StartPlate
    <3>2. "PlateStarted" \in Kind /\ "PlateStarted" \in Story /\ "PlateStarted" # "PlateFinished"
      BY <2>0 DEF Plates
    <3> QED
      BY <2>0, <3>1, <3>2
  <2>2. CASE FinishPlate(j)
    <3>1. Hear(j, "PlateFinished", done[j] + 1)
      BY <2>2 DEF FinishPlate
    <3>2. "PlateFinished" \in Kind /\ "PlateFinished" \in Story
      BY <2>0 DEF Plates
    <3> QED
      BY <2>0, <2>2, <3>1, <3>2
  <2>3. CASE Finish(j) \/ Fail(j) \/ Cancel(j)
    <3>1. PICK k \in Terminal, p \in Nat : Hear(j, k, p)
      BY <2>0, <2>3 DEF Finish, Fail, Cancel, Terminal
    <3>2. UNCHANGED done
      BY <2>3, Zenon DEF Finish, Fail, Cancel
    <3>3. k \in Kind /\ k \in Story /\ k # "PlateFinished"
      BY <2>0 DEF Terminal
    <3> QED
      BY <3>1, <3>2, <3>3
  <2> QED
    BY <2>1, <2>2, <2>3 DEF Work
<1>3. /\ phase[j] \in {"between", "slicing"} /\ phase'[j] # "idle"
      /\ \A k \in Job : k # j => phase'[k] = phase[k]
  <2>1. \/ phase' = [phase EXCEPT ![j] = "slicing"]
        \/ phase' = [phase EXCEPT ![j] = "between"]
        \/ phase' = [phase EXCEPT ![j] = "ended"]
    BY DEF Work, StartPlate, FinishPlate, Finish, Fail, Cancel, Shift
  <2>2. phase[j] \in {"between", "slicing"}
    BY DEF Work, StartPlate, FinishPlate, Finish, Fail, Cancel, Shift
  <2> QED
    BY <1>0, <2>1, <2>2 DEF OutInv, TypeOK
<1>4. j \in Active /\ ready = {} /\ Active = {j}
  <2>1. j \in Active
    BY <1>3 DEF Active
  <2> QED
    BY <1>0, <2>1, WhileActive
<1>5. Active' \subseteq {j} /\ Used' = Used
  BY <1>1, <1>3, <1>4 DEF Active, Used
<1>6. /\ \A k \in Job : k # j => done'[k] = done[k]
      /\ done'[j] = done[j] \/ (done[j] = 0 /\ done'[j] = 1)
      /\ kind = "PlateFinished" => done[j] = 0 /\ done'[j] = 1
  <2>1. CASE kind = "PlateFinished"
    <3>1. phase[j] = "slicing" /\ done' = [done EXCEPT ![j] = @ + 1]
      BY <1>2, <2>1 DEF FinishPlate, Shift
    <3>2. done[j] = 0
      BY <1>0, <3>1 DEF OutInv, Slices, JobOK
    <3> QED
      BY <1>0, <3>1, <3>2 DEF OutInv, TypeOK
  <2>2. CASE kind # "PlateFinished"
    BY <1>2, <2>2
  <2> QED
    BY <2>1, <2>2
<1>7. PICK m \in Mail : m.kind = kind /\ m.plate = target[j] /\ m.job = j /\ channel' = Append(channel, m)
  BY <1>0, <1>2, WorkSays DEF Work
<1>8. /\ channel' \in Seq(Mail) /\ Len(channel') = Len(channel) + 1 /\ Mails' = Mails \cup {m}
      /\ \A i \in 1..Len(channel) : channel'[i] = channel[i]
      /\ channel'[Len(channel) + 1] = m
  BY <1>0, <1>7, InAppend DEF Mails
<1>9. Shown'
  <2>1. m.kind # "Loaded"
    BY <1>2, <1>7 DEF Story, Plates, Outcome, Terminal
  <2>2. \A k \in Job : done[k] = 1 => done'[k] = 1 /\ target'[k] = target[k]
    BY <1>1, <1>6
  <2>3. UNCHANGED <<path, preview>>
    BY <1>1
  <2> QED
    BY <1>1, <1>8, <2>1, <2>2, <2>3, ShownKept
<1>10. Order'
  <2>1. Latest'
    <3>1. \A k \in Used : k <= j
      BY <1>4 DEF SentInv, Order, Latest
    <3>2. \A i \in ready' \cup Active' : i = j
      BY <1>1, <1>4, <1>5
    <3> QED
      BY <1>5, <1>7, <1>8, <3>1, <3>2 DEF SentInv, Order, Latest
  <2>2. \A k \in Job : phase'[k] = "idle" => phase[k] = "idle" /\ log'[k] = log[k]
    <3>1. TypeOK
      BY <1>0 DEF OutInv
    <3>2. \A k \in Job \ {j} : log'[k] = log[k]
      BY <1>2, <3>1, HearProperties
    <3> QED
      BY <1>3, <3>2
  <2>3. \A k \in Job : Begun(k)' => Begun(k) \/ ToldOf("PlateStarted", k)'
    <3> SUFFICES ASSUME NEW k \in Job, Begun(k)', ~Begun(k) PROVE ToldOf("PlateStarted", k)'
      OBVIOUS
    <3>1. TypeOK /\ log[j] \in Seq(Event) /\ Len(log[j]) \in Nat
      BY <1>0 DEF OutInv, TypeOK
    <3>2. /\ log'[j][Len(log[j]) + 1].kind = kind
          /\ \A i \in 1..Len(log[j]) : log'[j][i] = log[j][i]
          /\ \A i \in Job \ {j} : log'[i] = log[i]
      BY <1>2, <3>1, HearProperties
    <3>3. k = j
      BY <3>2 DEF Begun
    <3>4. log[j] = <<>>
      BY <3>1, <3>2, <3>3 DEF Begun
    <3>5. Len(log[j]) + 1 = 1
      BY <3>4
    <3>6. kind = "PlateStarted"
      BY <3>2, <3>3, <3>5 DEF Begun
    <3> QED
      BY <1>7, <1>8, <3>3, <3>6 DEF ToldOf
  <2>4. Mails \subseteq Mails' /\ UNCHANGED path /\ \A k \in Job : target'[k] = target[k]
    BY <1>1, <1>8
  <2> QED
    BY <2>1, <2>2, <2>3, <2>4, OrderKept
<1>11. Fresh'
  <2>1. Len(channel) + 1..Len(channel') = {Len(channel) + 1} /\ Len(channel) <= Len(channel')
    BY <1>0, <1>8
  <2>2. kind = "PlateFinished" => Current(m.plate, m.job)'
    <3>1. kind = "PlateFinished" => Current(target[j], j)
      BY <1>4, <1>6 DEF SentInv, Fresh, ReadIsCurrent
    <3> QED
      BY <1>1, <1>7, <3>1 DEF Current
  <2>3. \A i \in Len(channel) + 1..Len(channel') : \A k \in Mail :
          k = channel'[i] /\ k.kind = "PlateFinished" => Current(k.plate, k.job)'
    BY <1>7, <1>8, <2>1, <2>2
  <2>4. \A k \in ready' \cup Active' : done'[k] = 0 =>
          k \in ready \cup Active /\ done[k] = 0 /\ target'[k] = target[k] /\ snapshot'[k] = snapshot[k]
    BY <1>1, <1>4, <1>5, <1>6
  <2>5. /\ UNCHANGED <<live, unbound, content, overtaken, path>>
        /\ unsent' = unsent /\ \A k \in Job : snapshot'[k] = snapshot[k]
    BY <1>1
  <2> QED
    BY <1>8, <2>1, <2>3, <2>4, <2>5, FreshKept
<1> QED
  BY <1>9, <1>10, <1>11

-----------------------------------------------------------------------------
(* A delivery.  What was said behind the message is still to be heard.      *)
LEMMA Heard ==
  ASSUME SentInv, Deliver
  PROVE  /\ UNCHANGED <<phase, done, log, ready, target, snapshot>>
         /\ UNCHANGED <<live, unbound, content, overtaken, unsent>>
         /\ Active' = Active /\ Used' = Used
         /\ Head(channel) \in Mails /\ Mails = Mails' \cup {Head(channel)}
         /\ channel' \in Seq(Mail) /\ Len(channel) \in Nat /\ 1 \in 1..Len(channel) /\ channel[1] = Head(channel)
         /\ \A i \in 1..Len(channel') : i + 1 \in 1..Len(channel) /\ channel'[i] = channel[i + 1]
         /\ \A i \in 1..Len(channel) : i > 1 => i - 1 \in 1..Len(channel') /\ channel'[i - 1] = channel[i]
<1>1. UNCHANGED sliceVars /\ UNCHANGED editVars
  BY Zenon DEF Deliver
<1>2. /\ UNCHANGED <<phase, done, log, ready, target, snapshot>>
      /\ UNCHANGED <<live, unbound, content, overtaken, unsent>>
  BY <1>1, Zenon DEF sliceVars, vars, editVars
<1>3. channel \in Seq(Mail) /\ channel # <<>> /\ channel' = Tail(channel)
  BY DEF Deliver, SentInv, OutInv, Slices, Types
<1>4. /\ channel' \in Seq(Mail) /\ Len(channel') = Len(channel) - 1 /\ Len(channel) \in Nat \ {0}
      /\ channel[1] = Head(channel) /\ Mails = Mails' \cup {Head(channel)}
      /\ \A i \in 1..Len(channel') : i + 1 \in 2..Len(channel) /\ channel'[i] = channel[i + 1]
  BY <1>3, InTail DEF Mails
<1>5. \A i \in 1..Len(channel) : i > 1 => i - 1 \in 1..Len(channel') /\ channel'[i - 1] = channel[i]
  <2> SUFFICES ASSUME NEW i \in 1..Len(channel), i > 1
               PROVE  i - 1 \in 1..Len(channel') /\ channel'[i - 1] = channel[i]
    OBVIOUS
  <2>1. i - 1 \in 1..Len(channel') /\ (i - 1) + 1 = i
    BY <1>4
  <2> QED
    BY <1>4, <2>1
<1>6. Active' = Active /\ Used' = Used
  BY <1>2 DEF Active, Used
<1>7. 1 \in 1..Len(channel) /\ \A i \in 1..Len(channel') : i + 1 \in 1..Len(channel)
  BY <1>4
<1> QED
  BY <1>2, <1>4, <1>5, <1>6, <1>7

LEMMA HeardOrder ==
  ASSUME SentInv, Deliver,
         \A p \in PlateId : \/ path'[p] = NoJob
                            \/ path'[p] = path[p]
                            \/ \A j \in Used : j <= path'[p],
         path' \in [PlateId -> JobOrNone],
         Head(channel).kind = "PlateStarted" => path'[Head(channel).plate] = NoJob
  PROVE  Order'
<1> DEFINE e == Head(channel)
<1>1. /\ UNCHANGED <<phase, log, ready, target>>
      /\ Active' = Active /\ Used' = Used
      /\ e \in Mails /\ Mails = Mails' \cup {e}
  BY Heard
<1>2. IdleIsSilent' /\ Latest'
  BY <1>1 DEF SentInv, Order, IdleIsSilent, Latest
<1>3. Superseded'
  <2> SUFFICES ASSUME NEW p \in PlateId, NEW j \in Job, path'[p] # NoJob, path'[p] < j, target[j] = p, Begun(j)
               PROVE  ToldOf("PlateStarted", j)'
    BY <1>1 DEF Superseded, Begun
  <2>1. j \in Used
    BY DEF SentInv, Order, IdleIsSilent, Begun, Used
  <2>2. path'[p] = path[p]
    <3>1. path'[p] \in Nat /\ j \in Nat
      BY OutputAssumption DEF JobOrNone
    <3>2. ~(j <= path'[p])
      BY <3>1
    <3> QED
      BY <2>1, <3>2
  <2>3. PICK m \in Mails : m.kind = "PlateStarted" /\ m.job = j
    BY <2>2 DEF SentInv, Order, Superseded, ToldOf
  <2>4. m.plate = p
    BY <2>3 DEF SentInv, OutInv, Slices, MailOK, Plates
  <2>5. m # e
    BY <2>3, <2>4
  <2> QED
    BY <1>1, <2>3, <2>5 DEF ToldOf
<1> QED
  BY <1>2, <1>3 DEF Order

LEMMA HeardFresh ==
  ASSUME SentInv, Deliver,
         \A p \in PlateId :
           \/ path'[p] = NoJob
           \/ path'[p] = path[p] /\ (Head(channel).kind = "Edited" => Head(channel).plate \notin {p, All})
           \/ /\ Head(channel).kind = "PlateFinished" /\ Head(channel).plate = p
              /\ path'[p] = Head(channel).job
  PROVE  Fresh'
<1> DEFINE e == Head(channel)
<1>1. /\ UNCHANGED <<phase, done, log, ready, target, snapshot>>
      /\ UNCHANGED <<live, unbound, content, overtaken, unsent>>
      /\ Active' = Active
      /\ channel' \in Seq(Mail) /\ Len(channel) \in Nat /\ 1 \in 1..Len(channel) /\ channel[1] = e
      /\ \A i \in 1..Len(channel') : i + 1 \in 1..Len(channel) /\ channel'[i] = channel[i + 1]
      /\ \A i \in 1..Len(channel) : i > 1 => i - 1 \in 1..Len(channel') /\ channel'[i - 1] = channel[i]
  BY Heard
<1> HIDE DEF e
<1>2. \A p : \A i \in 0..Len(channel) : Covered(i + 1, p) => Covered(i, p)'
  <2> SUFFICES ASSUME NEW p, NEW i \in 0..Len(channel), Covered(i + 1, p) PROVE Covered(i, p)'
    OBVIOUS
  <2>1. CASE unsent \cap {p, All} # {}
    BY <1>1, <2>1 DEF Covered
  <2>2. CASE unsent \cap {p, All} = {}
    <3>1. PICK k \in 1..Len(channel) : k > i + 1 /\ channel[k].kind = "Edited" /\ channel[k].plate \in {p, All}
      BY <2>2 DEF Covered
    <3>2. k - 1 \in 1..Len(channel') /\ channel'[k - 1] = channel[k] /\ k - 1 > i
      BY <1>1, <3>1
    <3> QED
      BY <3>1, <3>2 DEF Covered
  <2> QED
    BY <2>1, <2>2
<1>3. \A p, j : Current(p, j)' <=> Current(p, j)
  BY <1>1 DEF Current
<1>4. ReadIsCurrent'
  BY <1>1, <1>3 DEF SentInv, Fresh, ReadIsCurrent
<1>5. ToldIsCurrent'
  <2> SUFFICES ASSUME NEW i \in 1..Len(channel'), NEW m, m = channel'[i], m.kind = "PlateFinished",
                      m.plate \in live \ unbound
               PROVE  Current(m.plate, m.job)' \/ Covered(i, m.plate)'
    BY <1>1 DEF ToldIsCurrent
  <2>1. i + 1 \in 1..Len(channel) /\ m = channel[i + 1] /\ i \in 0..Len(channel)
    BY <1>1
  <2>2. Current(m.plate, m.job) \/ Covered(i + 1, m.plate)
    BY <2>1 DEF SentInv, Fresh, ToldIsCurrent
  <2> QED
    BY <1>2, <1>3, <2>1, <2>2
<1>6. KeptIsCurrent'
  <2> SUFFICES ASSUME NEW p \in live \ unbound, path'[p] # NoJob
               PROVE  \E j : j = path'[p] /\ (Current(p, j)' \/ Covered(0, p)')
    BY <1>1 DEF KeptIsCurrent, Current
  <2>0. p \in PlateId /\ 0 \in 0..Len(channel) /\ 0 + 1 = 1
    BY <1>1 DEF SentInv, EditTypes
  <2>1. CASE path'[p] = path[p] /\ (e.kind = "Edited" => e.plate \notin {p, All})
    <3>1. Current(p, path[p]) \/ Covered(0, p)
      BY <2>1 DEF SentInv, Fresh, KeptIsCurrent
    <3>2. Covered(0, p) => Covered(1, p)
      BY <1>1, <2>1 DEF Covered
    <3>3. Covered(1, p) => Covered(0, p)'
      BY <1>2, <2>0
    <3> QED
      BY <1>3, <2>1, <3>1, <3>2, <3>3
  <2>2. CASE e.kind = "PlateFinished" /\ e.plate = p /\ path'[p] = e.job
    <3>1. Current(p, e.job) \/ Covered(1, p)
      BY <1>1, <2>2 DEF SentInv, Fresh, ToldIsCurrent
    <3>2. Covered(1, p) => Covered(0, p)'
      BY <1>2, <2>0
    <3> QED
      BY <1>3, <2>2, <3>1, <3>2
  <2> QED
    BY <2>0, <2>1, <2>2 DEF e
<1> QED
  BY <1>4, <1>5, <1>6 DEF Fresh

LEMMA ForgetHeard ==
  ASSUME SentInv, Deliver, NEW S \in SUBSET PlateId, Forget(S),
         Head(channel).kind = "PlateStarted" => Head(channel).plate \in S,
         Head(channel).kind = "Edited" => \A p \in PlateId \ S : Head(channel).plate \notin {p, All}
  PROVE  Shown' /\ Order' /\ Fresh'
<1>1. /\ UNCHANGED <<phase, done, log, ready, target, snapshot>>
      /\ Mails = Mails' \cup {Head(channel)}
  BY Heard
<1>2. /\ OutInv /\ inbox \in Seq(Call)
      /\ path \in [PlateId -> JobOrNone] /\ \A m \in Mails : m.kind \in Plates \cup {"Loaded"} => m.plate \in PlateId
  BY DEF SentInv, EditTypes, OutInv, Slices, Types, MailOK
<1>3. /\ path' \in [PlateId -> JobOrNone]
      /\ \A p \in PlateId : path'[p] = IF p \in S THEN NoJob ELSE path[p]
      /\ \A p \in PlateId : preview'[p] = IF p \in S THEN NoJob ELSE preview[p]
  BY <1>2 DEF Forget, Without, JobOrNone
<1>4. \A c \in Calls' : c.kind = "load" => c \in Calls
  <2>1. DropCalls(S) \in Seq(Call) /\ \A c \in In(DropCalls(S)) : c.kind = "drop"
    BY <1>2, DropCallsOfSet DEF OutInv, Slices, Previews, Message
  <2>2. Calls' = Calls \cup In(DropCalls(S))
    BY <1>2, <2>1, InConcat DEF Forget, Calls
  <2> QED
    BY <2>1, <2>2
<1>5. Shown'
  <2>1. PathOK'
    BY <1>1, <1>3 DEF SentInv, Shown, PathOK
  <2>2. OneIsShown'
    <3>1. \A p \in PlateId : preview'[p] # NoJob => path'[p] \in {NoJob, preview'[p]}
      BY <1>3 DEF SentInv, Shown, OneIsShown
    <3>2. \A m \in Mails' : m.kind = "Loaded" => path'[m.plate] \in {NoJob, m.job}
      BY <1>1, <1>2, <1>3 DEF SentInv, Shown, OneIsShown
    <3>3. \A c \in Calls : c.kind = "load" => c.plate \in PlateId /\ path'[c.plate] \in {NoJob, c.job}
      <4>1. \A c \in Calls : c.kind = "load" => c.plate \in PlateId
        BY <1>2 DEF OutInv, Slices, Types, Previews, CallsOK
      <4> QED
        BY <1>3, <4>1 DEF SentInv, Shown, OneIsShown
    <3> QED
      BY <1>4, <3>1, <3>2, <3>3 DEF OneIsShown
  <2> QED
    BY <2>1, <2>2 DEF Shown
<1>6. Order'
  <2>1. \A p \in PlateId : path'[p] = NoJob \/ path'[p] = path[p]
    BY <1>3
  <2>2. Head(channel).kind = "PlateStarted" => path'[Head(channel).plate] = NoJob
    BY <1>3
  <2> QED
    BY <1>3, <2>1, <2>2, HeardOrder
<1>7. Fresh'
  <2>1. \A p \in PlateId : \/ path'[p] = NoJob
                           \/ /\ path'[p] = path[p]
                              /\ Head(channel).kind = "Edited" => Head(channel).plate \notin {p, All}
    BY <1>3
  <2> QED
    BY <2>1, HeardFresh
<1> QED
  BY <1>5, <1>6, <1>7

LEMMA DeliverKeeps ==
  ASSUME SentInv, Deliver
  PROVE  Shown' /\ Order' /\ Fresh'
<1> DEFINE e == Head(channel)
<1>1. /\ UNCHANGED <<phase, done, log, ready, target, snapshot>>
      /\ e \in Mails /\ Mails = Mails' \cup {e}
  BY Heard
<1>2. /\ OutInv /\ path \in [PlateId -> JobOrNone] /\ preview \in [PlateId -> JobOrNone]
      /\ inbox \in Seq(Call) /\ channel \in Seq(Mail)
      /\ \A m \in Mails : m.kind \in Plates \cup {"Loaded"} => m.plate \in PlateId /\ m.job \in Job
      /\ \A c \in Calls : c.kind = "load" => c.plate \in PlateId
  BY DEF SentInv, EditTypes, OutInv, Slices, Types, MailOK, Previews, CallsOK
<1>3. CASE OnPlateStarted(e)
  <2>1. {e.plate} \in SUBSET PlateId /\ e.kind = "PlateStarted"
    BY <1>1, <1>2, <1>3 DEF OnPlateStarted, Plates
  <2> QED
    BY <1>3, <2>1, ForgetHeard DEF OnPlateStarted
<1>4. CASE OnEdited(e)
  <2>1. e.kind = "Edited"
    BY <1>4 DEF OnEdited
  <2>2. CASE e.plate = All
    <3>1. Forget(PlateId) /\ PlateId \in SUBSET PlateId
      BY <1>4, <2>2 DEF OnEdited
    <3> QED
      BY <2>1, <3>1, ForgetHeard
  <2>3. CASE e.plate # All
    <3>1. e.plate \in PlateId
      <4>1. e \in Mail
        BY <1>2 DEF Deliver
      <4> QED
        BY <2>3, <4>1 DEF Mail
    <3>2. Forget({e.plate}) /\ {e.plate} \in SUBSET PlateId
      BY <1>4, <2>3, <3>1 DEF OnEdited
    <3>3. \A p \in PlateId \ {e.plate} : e.plate \notin {p, All}
      BY <2>3
    <3> QED
      BY <2>1, <3>2, <3>3, ForgetHeard
  <2> QED
    BY <2>2, <2>3
<1>5. CASE OnPlateFinished(e)
  <2> DEFINE c == Message("load", e.plate, e.job)
  <2>1. /\ e.kind = "PlateFinished" /\ e.plate \in PlateId /\ e.job \in Job
        /\ e.plate = target[e.job] /\ done[e.job] = 1
        /\ preview[e.plate] = NoJob /\ ~Told({"Loaded"}) /\ ~Called("load")
        /\ inbox' = Append(inbox, c) /\ UNCHANGED preview
    BY <1>2, <1>5, FinishedIsFree
  <2>2. c \in Call /\ c.kind = "load" /\ c.plate = e.plate /\ c.job = e.job
    BY <2>1 DEF Call, Message, JobOrNone
  <2>3. Calls' = Calls \cup {c}
    BY <1>2, <2>1, <2>2, InAppend DEF Calls
  <2> HIDE DEF c, e
  <2>4. path'[e.plate] = e.job /\ \A p \in PlateId : p # e.plate => path'[p] = path[p]
    BY <1>2, <1>5, <2>1 DEF OnPlateFinished
  <2>5. path' \in [PlateId -> JobOrNone]
    BY <1>2, <1>5, <2>1 DEF OnPlateFinished, JobOrNone
  <2>6. PathOK'
    BY <1>1, <2>1, <2>4 DEF SentInv, Shown, PathOK
  <2>7. OneIsShown'
    <3>1. \A p \in PlateId : preview'[p] # NoJob => path'[p] \in {NoJob, preview'[p]}
      BY <2>1, <2>4 DEF SentInv, Shown, OneIsShown
    <3>2. \A m \in Mails' : m.kind # "Loaded"
      BY <1>1, <2>1 DEF Told
    <3>3. \A d \in Calls' : d.kind = "load" => d = c
      BY <2>1, <2>3 DEF Called
    <3> QED
      BY <2>2, <2>4, <3>1, <3>2, <3>3 DEF OneIsShown
  <2>8. Order'
    <3>1. \A j \in Used : j <= e.job
      BY <1>1, <2>1 DEF SentInv, Order, Latest, Plates
    <3>2. \A p \in PlateId : path'[p] = path[p] \/ \A j \in Used : j <= path'[p]
      BY <2>4, <3>1
    <3> QED
      BY <2>1, <2>5, <3>2, HeardOrder DEF e
  <2>9. Fresh'
    <3>1. \A p \in PlateId : path'[p] = path[p] \/ (e.plate = p /\ path'[p] = e.job)
      BY <2>4
    <3> QED
      BY <2>1, <3>1, HeardFresh DEF e
  <2> QED
    BY <2>6, <2>7, <2>8, <2>9 DEF Shown
<1>6. CASE OnLoaded(e) \/ OnOutcome(e)
  <2>1. UNCHANGED <<path, inbox>> /\ e.kind # "PlateStarted" /\ e.kind # "Edited"
    BY <1>6 DEF OnLoaded, OnOutcome, Terminal
  <2>2. Calls' = Calls
    BY <2>1 DEF Calls
  <2>3. PathOK'
    BY <1>1, <2>1 DEF SentInv, Shown, PathOK
  <2>4. OneIsShown'
    <3>1. \A p \in PlateId : preview'[p] # NoJob => path[p] \in {NoJob, preview'[p]}
      <4>1. CASE OnLoaded(e)
        <5>1. e.kind = "Loaded" /\ e.plate \in PlateId
          BY <1>1, <1>2, <4>1 DEF OnLoaded
        <5>2. path[e.plate] \in {NoJob, e.job}
          BY <1>1, <5>1 DEF SentInv, Shown, OneIsShown
        <5>3. preview'[e.plate] = e.job /\ \A p \in PlateId : p # e.plate => preview'[p] = preview[p]
          BY <1>2, <4>1, <5>1 DEF OnLoaded
        <5> QED
          BY <5>2, <5>3 DEF SentInv, Shown, OneIsShown
      <4>2. CASE OnOutcome(e)
        BY <4>2 DEF OnOutcome, SentInv, Shown, OneIsShown
      <4> QED
        BY <1>6, <4>1, <4>2
    <3> QED
      BY <1>1, <2>1, <2>2, <3>1 DEF SentInv, Shown, OneIsShown
  <2>5. path' \in [PlateId -> JobOrNone] /\ \A p \in PlateId : path'[p] = path[p]
    BY <1>2, <2>1
  <2>6. Order'
    BY <2>1, <2>5, HeardOrder
  <2>7. Fresh'
    BY <2>1, <2>5, HeardFresh
  <2> QED
    BY <2>3, <2>4, <2>6, <2>7 DEF Shown
<1> QED
  BY <1>3, <1>4, <1>5, <1>6 DEF Deliver

-----------------------------------------------------------------------------
LEMMA OutInit_SentInv == OutInit => SentInv
<1> SUFFICES ASSUME OutInit PROVE SentInv
  OBVIOUS
<1>1. OutInv
  BY OutInit_OutInv
<1>2. /\ live = {1} /\ unbound = {} /\ content = [p \in PlateId |-> 0] /\ clock = 0 /\ unsent = {}
      /\ ready = {} /\ snapshot = [j \in Job |-> 0] /\ channel = <<>> /\ inbox = <<>> /\ overtaken = {}
      /\ path = [p \in PlateId |-> NoJob] /\ preview = [p \in PlateId |-> NoJob]
      /\ phase = [j \in Job |-> "idle"] /\ log = [j \in Job |-> <<>>]
  BY DEF OutInit, Init
<1>3. Mails = {} /\ Calls = {} /\ Active = {}
  BY <1>2 DEF Mails, Calls, In, Active
<1>4. EditTypes
  <2>1. 1 \in PlateId /\ 0 \in 0..MaxEdits
    BY OutputAssumption DEF PlateId
  <2>2. {1} \in SUBSET PlateId /\ {1} # {}
    BY <2>1
  <2>3. live \in (SUBSET PlateId) \ {{}}
    BY <1>2, <2>2, Zenon
  <2>4. /\ unbound \subseteq live /\ content \in [PlateId -> 0..MaxEdits] /\ clock \in 0..MaxEdits
        /\ snapshot \in [Job -> 0..MaxEdits] /\ overtaken \subseteq Job
    BY <1>2, <2>1
  <2>5. unsent \in {{}} \cup {{p} : p \in PlateId \cup {All}} /\ path \in [PlateId -> JobOrNone]
    BY <1>2 DEF JobOrNone
  <2> QED
    BY <2>3, <2>4, <2>5 DEF EditTypes
<1>5. Shown
  BY <1>2, <1>3 DEF Shown, PathOK, OneIsShown
<1>6. Order
  BY <1>2, <1>3 DEF Order, IdleIsSilent, Latest, Superseded, Begun
<1>7. Fresh
  <2>1. ReadIsCurrent
    BY <1>2, <1>3 DEF ReadIsCurrent
  <2>2. ToldIsCurrent
    BY <1>2 DEF ToldIsCurrent
  <2>3. KeptIsCurrent
    <3>1. \A p \in live : p \in PlateId
      BY <1>4 DEF EditTypes
    <3> QED
      BY <1>2, <3>1 DEF KeptIsCurrent
  <2> QED
    BY <2>1, <2>2, <2>3 DEF Fresh
<1> QED
  BY <1>1, <1>4, <1>5, <1>6, <1>7 DEF SentInv

LEMMA SentInv_Step == SentInv /\ [OutNext]_outVars => SentInv'
<1> SUFFICES ASSUME SentInv, [OutNext]_outVars PROVE SentInv'
  OBVIOUS
<1>1. OutInv'
  BY OutInv_Step DEF SentInv
<1>2. CASE OutNext
  <2>1. EditTypes'
    BY <1>2, EditTypesKept DEF SentInv
  <2>2. Shown' /\ Order' /\ Fresh'
    BY <1>2, EditSteps, UnheardStep, AsideSteps, PlateReadStep, WorkStep, DeliverKeeps DEF OutNext
  <2> QED
    BY <1>1, <2>1, <2>2 DEF SentInv
<1>3. CASE UNCHANGED outVars
  <2>1. /\ UNCHANGED <<phase, done, log, ready, target, snapshot>>
        /\ UNCHANGED <<live, unbound, content, clock, overtaken, unsent>>
        /\ UNCHANGED <<path, preview, inbox, channel>>
    BY <1>3, Zenon DEF outVars, sliceVars, vars, editVars, pageVars
  <2>2. Calls' = Calls /\ Active' = Active /\ Used' = Used
    BY <2>1 DEF Calls, Active, Used
  <2>3. Shown' /\ Order' /\ Fresh'
    BY <2>1, <2>2, AsideStep
  <2>4. EditTypes'
    BY <2>1 DEF SentInv, EditTypes
  <2> QED
    BY <1>1, <2>3, <2>4 DEF SentInv
<1> QED
  BY <1>2, <1>3

(* The two flags, which the provers keep apart from the rest. *)
FlagsOK == busy \in BOOLEAN /\ preparing \in BOOLEAN

LEMMA FlagsStep == FlagsOK /\ [OutNext]_outVars => FlagsOK'
<1> SUFFICES ASSUME FlagsOK, [OutNext]_outVars PROVE FlagsOK'
  OBVIOUS
<1>1. CASE ClickSlice \/ RunSlice \/ RejectSlice \/ \E j \in Job : ReadPlate(j)
  BY <1>1, Zenon DEF FlagsOK, ClickSlice, RunSlice, RejectSlice, ReadPlate, sliceVars, pageVars
<1>2. CASE Deliver
  <2>1. UNCHANGED sliceVars
    BY <1>2, Zenon DEF Deliver
  <2>2. UNCHANGED busy \/ busy' = FALSE
    BY <1>2, Zenon DEF Deliver, OnPlateStarted, OnPlateFinished, OnLoaded, OnEdited, OnOutcome, Forget
  <2> QED
    BY <2>1, <2>2, Zenon DEF FlagsOK, sliceVars
<1>3. CASE \/ EditProject \/ EmitEdit \/ AddPlate \/ RunLoad \/ RunDrop
           \/ \E p \in PlateId : EditPlate(p) \/ RemovePlate(p)
           \/ \E S \in SUBSET live : ChangeUnheard(S)
           \/ \E j \in Job : StartReady(j) \/ CancelReady(j) \/ Work(j)
           \/ UNCHANGED outVars
  <2>1. UNCHANGED busy /\ UNCHANGED preparing
    BY <1>3, Zenon DEF ChangeUnheard, EditProject, EmitEdit, AddPlate, RunLoad, RunDrop, EditPlate, RemovePlate, StartReady,
       CancelReady, Work, outVars, sliceVars, pageVars
  <2> QED
    BY <2>1, Zenon DEF FlagsOK
<1> QED
  BY <1>1, <1>2, <1>3, Zenon DEF OutNext

(* Once nothing is on its way, what Send and Export would take of a plate   *)
(* is of the plate as it is, unless the plate was changed while that very   *)
(* slice was running or by a change that emits no edit event; no later slice of it has begun; and a preview beside  *)
(* it is of the same slice (useLastSliceOutput.ts:34,                       *)
(* useSlicePreviewBridge.ts:59): for any number of plates, jobs and edits.  *)
THEOREM SentIsCurrent == OutSpec => []OutputIsCurrent
<1>1. OutInit => FlagsOK
  BY Zenon DEF OutInit, FlagsOK
<1>2. SentInv /\ FlagsOK => OutputIsCurrent
  <2> SUFFICES ASSUME SentInv, FlagsOK PROVE OutputIsCurrent
    OBVIOUS
  <2>1. OutTypeOK
    <3>1. TypeOK
      BY DEF SentInv, OutInv
    <3>2. /\ live \in (SUBSET PlateId) \ {{}} /\ unbound \subseteq live
          /\ content \in [PlateId -> 0..MaxEdits] /\ clock \in 0..MaxEdits
          /\ unsent \in {{}} \cup {{p} : p \in PlateId \cup {All}}
          /\ snapshot \in [Job -> 0..MaxEdits] /\ overtaken \subseteq Job
          /\ path \in [PlateId -> JobOrNone]
      BY DEF SentInv, EditTypes
    <3>3. /\ inbox \in Seq([kind : {"slice", "load", "drop"}, plate : PlateId \cup {All}, job : JobOrNone])
          /\ target \in [Job -> PlateId] /\ ready \subseteq Job /\ handles \subseteq Job
          /\ preview \in [PlateId -> JobOrNone]
      BY DEF SentInv, OutInv, Slices, Types, Call
    <3> QED
      BY <3>1, <3>2, <3>3, Zenon DEF OutTypeOK, FlagsOK
  <2>2. ASSUME Calm PROVE Mails = {} /\ unsent = {} /\ \A p : ~Covered(0, p)
    BY <2>2 DEF Calm, Mails, In, Covered
  <2>3. PathIsCurrentUnlessOvertaken
    BY <2>2 DEF PathIsCurrentUnlessOvertaken, SentInv, Fresh, KeptIsCurrent, Current
  <2>4. NoOlderOutput
    BY <2>2 DEF NoOlderOutput, SentInv, Order, Superseded, Begun, ToldOf
  <2>5. ShownIsSent
    BY DEF ShownIsSent, SentInv, Shown, OneIsShown
  <2> QED
    BY <2>1, <2>3, <2>4, <2>5 DEF OutputIsCurrent
<1> QED
  BY <1>1, <1>2, OutInit_SentInv, SentInv_Step, FlagsStep, PTL DEF OutSpec
=============================================================================
