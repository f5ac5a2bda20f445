------------------------ MODULE PrinterDriverProofs ------------------------
(***************************************************************************)
(* Theorems about a printer driver, for any set of sends and commands, any  *)
(* capacity of its queues and any number of network drops: SendsAreExact    *)
(* and DriversAreTrue.  DriverInv speaks of two sides.  The link's: which   *)
(* tasks there are at each point of the driver's life (TaskShape).  The     *)
(* calls': who holds the lock and the token, that a send starts a print     *)
(* once and with its last act (Starts), and what the status says, or has on *)
(* its way, of the job a command is aimed at (Commanded).  Most steps are   *)
(* of one side and leave what the other side reads alone.                   *)
(***************************************************************************)
EXTENDS PrinterDriver, TLAPS

Lives == {"new", "up", "down", "failed", "removed"} \cup Writing
Loops == {"none", "start", "poll", "subscribing", "pushing", "publishing", "open", "backoff", "gone"}
Told  == {"setK", "pushall", "disconnect"}
Unstarted == {"idle", "payload", "lock", "pushK", "upload", "publish", "script", "rejected"}
Reading   == {"pushK", "upload", "publish", "script", "answer"}
InCommand == {"check", "sent", "waiting", "result"}
Queued(r) == \E i \in 1..Len(reqs) : reqs[i] = r
Started(s) == sendPc[s] \notin Unstarted /\ ~Queued(s)
Begins  == {"new", "wantConnect", "probing", "failed"}
Serving == {"up", "wantDisconnect"}
Closes  == {"closing", "joinWorker", "joinLoop"}
Past    == {"down", "wantRemove", "removed"}

LinkTypes ==
    /\ kind \in Kinds /\ purpose \in Purposes /\ life \in Lives /\ loop \in Loops
    /\ worker \in {"none", "run", "gone"} /\ flush \in Connections \cup {"idle"}
    /\ pend \in Jobs \cup {"none"}
    /\ DOMAIN status = {"conn", "job"} /\ status \in [conn : Connections, job : Jobs]
    /\ shown \in [conn : Connections, job : Jobs]
    /\ unseen \subseteq Watchers
    /\ reqs \in Seq(Sends \cup Told \cup ({cmd.op} \ {"none"})) /\ Len(reqs) <= ReqCap
    /\ raw \in Seq(Jobs) /\ Len(raw) <= RawCap
    /\ DOMAIN printer = {"up", "job", "by", "owed", "watching"}
    /\ printer.job \in Jobs /\ printer.by \in Sends \cup {"screen", "cali"}

CallTypes ==
    /\ sendPc \in [Sends -> {"idle", "payload"} \cup Uploading \cup Outcomes]
    /\ armed \in Sends \cup {"none"} /\ unanswered \subseteq Sends
    /\ DOMAIN cmd = {"op", "pc", "started", "settled", "target"}
    /\ cmd.op \in {"none", "pause", "resume", "stop", "cali"}
    /\ cmd.pc \in {"idle", "lock", "ok", "err"} \cup InCommand
    /\ cmd.op = "none" <=> cmd.pc = "idle"
    /\ cmd.target \in Sends \cup {"none", "screen", "cali"}

\* Which tasks a driver has.
TaskShape ==
    /\ life \in Begins => loop = "none" /\ worker = "none" /\ reqs = <<>>
                          /\ status.conn \in {"Disconnected", "Connecting"}
    /\ signalled => life \in Closes \cup Past
    /\ signalled /\ life \in Past => overtaken \/ status.conn = "Disconnected"
    /\ life \in Closes => signalled
    /\ life \in Past => signalled \/ loop = "none"
    /\ kind = "bambu" => loop \notin {"start", "publishing"}
    /\ kind # "bambu" => worker = "none" /\ reqs = <<>> /\ loop # "subscribing"
                         /\ life \notin {"joinWorker", "joinLoop"}
                         /\ (life \in Closes => loop \in {"gone", "publishing"})
    /\ life = "joinLoop" => worker # "run"
    /\ worker = "none" => flush = "idle"
    /\ flush # "idle" \/ loop = "publishing" => pend # "none"
    /\ NoTaskLeft

\* Who holds the lock, and what for.
Locks ==
    /\ readers = {s \in Sends : sendPc[s] \in Reading}
                   \cup {c \in {"command"} : cmd.pc \in InCommand}
    /\ readers # {} => life \notin Closes \cup {"probing"}
    /\ \A s \in Sends : sendPc[s] = "publish" => life \in Serving
    /\ kind # "bambu" =>
         /\ cmd.pc \notin {"sent", "waiting", "result"} /\ cmd.op # "cali"
         /\ \A s \in Sends : sendPc[s] \notin {"pushK", "publish"}

\* The registered token is the uploading send's.
Tokens == \A s \in Sends : armed = s <=> sendPc[s] \in Uploading

OnlyOnce == \A s \in Sends : \A i, k \in 1..Len(reqs) : reqs[i] = s /\ reqs[k] = s => i = k

\* A send starts a print once, and with its last act.
Starts ==
    /\ \A s \in Sends : sendPc[s] \in Unstarted => ~Queued(s)
    /\ \A s \in Sends : printer.by = s \/ cmd.target = s => Started(s)
    /\ OnlyOnce
    /\ kind = "bambu" => \A s \in Sends : sendPc[s] \notin {"script", "answer"}

\* What the status says or will say of the job.
Known(J) == status.job \in J \/ pend \in J \/ \E i \in 1..Len(raw) : raw[i] \in J

Before(op) == IF op = "resume" THEN "paused" ELSE "printing"
After(op) ==
    CASE op = "pause" -> {"paused"} [] op = "resume" -> {"printing"}
      [] op = "stop" -> {"failed", "finished"} [] OTHER -> {}
Undone == printer.by = cmd.target /\ printer.job = Before(cmd.op)

Commanded ==
    /\ cmd.op \in {"pause", "resume", "stop"} /\ cmd.settled /\ Undone =>
         /\ cmd.pc \in {"sent", "waiting"} => ~Known(After(cmd.op))
         /\ cmd.pc # "ok"
    /\ cmd.op = "cali" /\ cmd.settled /\ printer.by = "screen" =>
         /\ cmd.pc \in {"sent", "waiting"} =>
              Idle(printer.job) /\ ~Known({"printing"}) /\ ~cmd.started
         /\ cmd.pc \notin {"result", "ok"}
    /\ cmd.pc = "result" => cmd.op = "cali"
    /\ cmd.pc \in {"lock", "check", "sent"} => ~cmd.started

DriverInv ==
    /\ LinkTypes /\ CallTypes /\ TaskShape /\ Locks /\ Tokens /\ Starts
    /\ Commanded /\ CancelIsExact /\ NoFalseConnected

CallSide == CallTypes /\ Tokens /\ Starts /\ CancelIsExact /\ Commanded
LinkSide == LinkTypes /\ TaskShape /\ NoFalseConnected

-----------------------------------------------------------------------------
(* What a step leaves alone. *)
QueueMove == (\A s \in Sends : Queued(s)' => Queued(s)) /\ OnlyOnce'

LEMMA QueueKept ==
  ASSUME LinkTypes, OnlyOnce,
         \/ reqs' \in {reqs, <<>>} \/ (reqs # <<>> /\ reqs' = Tail(reqs))
         \/ \E r : r \notin Sends /\ reqs' = Append(reqs, r)
  PROVE  QueueMove
<1>0. reqs \in Seq(Sends \cup Told \cup ({cmd.op} \ {"none"}))
  BY DEF LinkTypes
<1>1. CASE reqs' = reqs
  BY <1>1 DEF QueueMove, Queued, OnlyOnce
<1>2. CASE reqs' = <<>>
  BY <1>2 DEF QueueMove, Queued, OnlyOnce
<1>3. CASE reqs # <<>> /\ reqs' = Tail(reqs)
  <2>1. Len(reqs') = Len(reqs) - 1 /\ \A i \in 1..Len(reqs') : reqs'[i] = reqs[i + 1] /\ i + 1 \in 1..Len(reqs)
    BY <1>0, <1>3
  <2>2. \A s \in Sends : Queued(s)' => Queued(s)
    BY <2>1 DEF Queued
  <2>3. OnlyOnce'
    <3> SUFFICES ASSUME NEW s \in Sends, NEW i \in 1..Len(reqs'), NEW k \in 1..Len(reqs'),
                        reqs'[i] = s, reqs'[k] = s
                 PROVE  i = k
      BY DEF OnlyOnce
    <3>1. i + 1 = k + 1
      BY <2>1 DEF OnlyOnce
    <3> QED
      BY <3>1
  <2> QED
    BY <2>2, <2>3 DEF QueueMove
<1>4. ASSUME NEW r, r \notin Sends, reqs' = Append(reqs, r) PROVE QueueMove
  <2>1. Len(reqs') = Len(reqs) + 1 /\ reqs'[Len(reqs) + 1] = r /\ Len(reqs) \in Nat
    BY <1>0, <1>4
  <2>2. \A i \in 1..Len(reqs) : reqs'[i] = reqs[i]
    BY <1>0, <1>4
  <2>3. \A s \in Sends : \A i \in 1..Len(reqs') : reqs'[i] = s => i \in 1..Len(reqs) /\ reqs[i] = s
    BY <1>4, <2>1, <2>2
  <2> QED
    BY <2>3 DEF QueueMove, Queued, OnlyOnce
<1> QED
  BY <1>1, <1>2, <1>3, <1>4

(* Who has started what, when nothing starts. *)
LEMMA StartsKept ==
  ASSUME Starts, CancelIsExact, QueueMove,
         UNCHANGED <<kind, sendPc, unanswered, cmd>>, printer'.by = printer.by
  PROVE  Starts' /\ CancelIsExact'
<1>1. Starts'
  BY DEF Starts, Started, QueueMove
<1>2. CancelIsExact'
  <2> SUFFICES ASSUME NEW s \in Sends, sendPc'[s] = "cancelled"
               PROVE  \/ printer'.by # s /\ \A i \in DOMAIN reqs' : reqs'[i] # s
                      \/ s \in unanswered' /\ kind' # "bambu"
    BY DEF CancelIsExact
  <2>1. CASE printer.by # s /\ \A i \in DOMAIN reqs : reqs[i] # s
    BY <2>1 DEF QueueMove, Queued
  <2>2. CASE s \in unanswered /\ kind # "bambu"
    BY <2>2
  <2> QED
    BY <2>1, <2>2 DEF CancelIsExact
<1> QED
  BY <1>1, <1>2

LEMMA CallsKept ==
  ASSUME CallTypes, Tokens, UNCHANGED <<sendVars, cmd>>
  PROVE  CallTypes' /\ Tokens'
  BY DEF CallTypes, Tokens, sendVars

LEMMA LocksKept ==
  ASSUME Locks, UNCHANGED <<kind, readers, sendVars, cmd>>,
         life' # life /\ life' \in Closes \cup {"probing"} => readers = {},
         life \in Serving => life' \in Serving \/ readers = {}
  PROVE  Locks'
<1>1. UNCHANGED <<sendPc, cmd>>
  BY DEF sendVars
<1>2. \A s \in Sends : sendPc[s] = "publish" => readers # {}
  BY DEF Locks, Reading
<1> QED
  BY <1>1, <1>2 DEF Locks

(* The job is what it was, and no news of it. *)
LEMMA CommandedKept ==
  ASSUME Commanded, UNCHANGED cmd, printer'.by = printer.by, printer'.job = printer.job,
         \A J : "none" \notin J /\ Known(J)' => Known(J)
  PROVE  Commanded'
<1>1. "none" \notin After(cmd.op)
  BY DEF After
<1>2. ~Known(After(cmd.op)) => ~Known(After(cmd.op))'
  BY <1>1 DEF After
<1>3. ~Known({"printing"}) => ~Known({"printing"})'
  OBVIOUS
<1> QED
  BY <1>2, <1>3 DEF Commanded, Undone

(* A step of the connection that starts no print and brings no news of one. *)
LEMMA NewsKept ==
  ASSUME DriverInv, UNCHANGED <<sendVars, cmd, kind>>,
         printer'.by = printer.by, printer'.job = printer.job, status'.job = status.job,
         pend' \in {pend, "none"}, raw' \in {raw, <<>>},
         \/ reqs' \in {reqs, <<>>} \/ (reqs # <<>> /\ reqs' = Tail(reqs))
         \/ \E r : r \notin Sends /\ reqs' = Append(reqs, r)
  PROVE  CallSide'
<1>1. CallTypes' /\ Tokens'
  BY CallsKept DEF DriverInv
<1>2. QueueMove
  BY QueueKept DEF DriverInv, Starts
<1>3. UNCHANGED <<sendPc, unanswered, cmd>>
  BY DEF sendVars
<1>4. Starts' /\ CancelIsExact'
  BY <1>2, <1>3, StartsKept DEF DriverInv
<1>5. \A J : "none" \notin J /\ Known(J)' => Known(J)
  BY DEF Known
<1>6. Commanded'
  BY <1>3, <1>5, CommandedKept DEF DriverInv
<1> QED
  BY <1>1, <1>4, <1>6 DEF CallSide

LEMMA CallSideKept ==
  ASSUME DriverInv, UNCHANGED <<sendVars, cmd, kind, printer, pend, raw>>,
         status'.job = status.job,
         \/ reqs' \in {reqs, <<>>} \/ (reqs # <<>> /\ reqs' = Tail(reqs))
         \/ \E r : r \notin Sends /\ reqs' = Append(reqs, r)
  PROVE  CallSide'
  BY NewsKept

LEMMA PrinterIdles ==
  ASSUME DriverInv, UNCHANGED <<sendVars, cmd, kind, pend, raw>>, status'.job = status.job,
         printer'.by = printer.by, printer'.job = printer.job, reqs' \in {reqs, <<>>}
  PROVE  CallSide'
  BY NewsKept

LEMMA Together ==
  ASSUME LinkSide', CallSide', Locks' PROVE DriverInv'
  BY DEF LinkSide, CallSide, DriverInv

LEMMA AskSteps ==
  ASSUME DriverInv, UNCHANGED <<sendVars, cmd>>,
         RequestConnect \/ RequestDisconnect \/ RequestRemove
  PROVE  DriverInv'
<1>1. /\ UNCHANGED <<kind, purpose, readers, loop, signalled, worker, pend, flush, status,
                     unseen, shown, reqs, raw, printer, overtaken>>
      /\ \/ life = "new" /\ life' = "wantConnect"
         \/ life = "up" /\ life' = "wantDisconnect"
         \/ life \in {"down", "failed"} /\ life' = "wantRemove"
  BY DEF RequestConnect, RequestDisconnect, RequestRemove, fixed, linkVars, workVars,
         chanVars, queues, machine, notes
<1>2. CallSide'
  BY <1>1, CallSideKept
<1>3. Locks'
  BY <1>1, LocksKept DEF DriverInv, Serving, Closes
<1>4. LinkTypes'
  BY <1>1 DEF DriverInv, LinkTypes, Lives, Writing
<1>5. TaskShape' /\ NoFalseConnected'
  BY <1>1 DEF DriverInv, TaskShape, NoFalseConnected, NoTaskLeft, Begins, Closes, Past
<1> QED
  BY <1>2, <1>3, <1>4, <1>5, Together DEF LinkSide

(* No command waits for the status of a Moonraker driver. *)
LEMMA MoonrakerNews ==
  ASSUME DriverInv, UNCHANGED <<sendVars, cmd, kind, reqs, raw>>,
         kind # "bambu" \/ (printer' = printer /\ pend' = pend /\ status' = status),
         printer'.by = printer.by, printer'.job = printer.job
  PROVE  CallSide'
<1>1. CallTypes' /\ Tokens'
  BY CallsKept DEF DriverInv
<1>2. QueueMove
  BY QueueKept DEF DriverInv, Starts
<1>3. UNCHANGED <<sendPc, unanswered, cmd>>
  BY DEF sendVars
<1>4. Starts' /\ CancelIsExact'
  BY <1>2, <1>3, StartsKept DEF DriverInv
<1>5. CASE kind # "bambu"
  <2>1. cmd.pc \notin {"sent", "waiting", "result"} /\ cmd.op # "cali"
    BY <1>5 DEF DriverInv, Locks
  <2>2. Commanded'
    BY <1>3, <2>1 DEF DriverInv, Commanded, Undone
  <2> QED
    BY <1>1, <1>4, <2>2 DEF CallSide
<1>6. CASE printer' = printer /\ pend' = pend /\ status' = status
  BY <1>6, CallSideKept
<1> QED
  BY <1>5, <1>6

LEMMA ProbeSteps ==
  ASSUME DriverInv, UNCHANGED <<sendVars, cmd>>, BeginProbe \/ ProbeFails \/ SpawnTasks
  PROVE  DriverInv'
<1>1. CASE BeginProbe
  <2>1. /\ UNCHANGED <<kind, purpose, readers, loop, signalled, worker, pend, flush,
                       shown, reqs, raw, printer, overtaken>>
        /\ life = "wantConnect" /\ readers = {} /\ life' = "probing"
        /\ status' = [status EXCEPT !.conn = "Connecting"] /\ unseen' = Watchers
    BY <1>1 DEF BeginProbe, CanWrite, Publish, PublishConn, fixed, linkVars, workVars, queues,
                machine, notes
  <2>2. CallSide'
    BY <2>1, CallSideKept DEF DriverInv, LinkTypes
  <2>3. Locks'
    BY <2>1, LocksKept DEF DriverInv, Serving
  <2>4. LinkTypes'
    BY <2>1 DEF DriverInv, LinkTypes, Lives, Writing, Connections
  <2>5. TaskShape' /\ NoFalseConnected'
    BY <2>1 DEF DriverInv, LinkTypes, TaskShape, NoFalseConnected, NoTaskLeft, Begins, Closes, Past
  <2> QED
    BY <2>2, <2>3, <2>4, <2>5, Together DEF LinkSide
<1>2. CASE ProbeFails
  <2>1. /\ UNCHANGED <<kind, purpose, readers, loop, signalled, worker, pend, flush, status,
                       unseen, shown, reqs, raw, printer, overtaken>>
        /\ life = "probing" /\ life' \in {"failed", "removed"}
    BY <1>2 DEF ProbeFails, fixed, linkVars, workVars, chanVars, queues, machine
  <2>2. CallSide'
    BY <2>1, CallSideKept
  <2>3. Locks'
    BY <2>1, LocksKept DEF DriverInv, Serving, Closes
  <2>4. LinkTypes'
    BY <2>1 DEF DriverInv, LinkTypes, Lives, Writing
  <2>5. TaskShape' /\ NoFalseConnected'
    BY <2>1 DEF DriverInv, TaskShape, NoFalseConnected, NoTaskLeft, Begins, Closes, Past
  <2> QED
    BY <2>2, <2>3, <2>4, <2>5, Together DEF LinkSide
<1>3. CASE SpawnTasks
  <2>1. /\ UNCHANGED <<kind, purpose, readers, pend, flush, status, unseen, shown, reqs, raw,
                       printer, overtaken>>
        /\ life = "probing" /\ life' = "up" /\ signalled' = FALSE
        /\ loop' = IF kind = "bambu" THEN "poll" ELSE "start"
        /\ worker' = IF kind = "bambu" THEN "run" ELSE "none"
    BY <1>3 DEF SpawnTasks, fixed, chanVars, queues, machine, notes
  <2>2. CallSide'
    BY <2>1, CallSideKept
  <2>3. Locks'
    BY <2>1, LocksKept DEF DriverInv, Serving, Closes
  <2>4. LinkTypes'
    BY <2>1 DEF DriverInv, LinkTypes, Lives, Loops
  <2>5. TaskShape' /\ NoFalseConnected'
    BY <2>1 DEF DriverInv, TaskShape, NoFalseConnected, NoTaskLeft, Begins, Closes, Past
  <2> QED
    BY <2>2, <2>3, <2>4, <2>5, Together DEF LinkSide
<1> QED
  BY <1>1, <1>2, <1>3

LEMMA CloseSteps ==
  ASSUME DriverInv, UNCHANGED <<sendVars, cmd>>,
         BeginClose \/ CloseClient \/ JoinWorker \/ Disconnect \/ Remove
         \/ \E v \in {"ok", "err", "timeout"} : TestDecides(v)
  PROVE  DriverInv'
<1>0. /\ DOMAIN printer = {"up", "job", "by", "owed", "watching"}
      /\ DOMAIN status = {"conn", "job"}
  BY DEF DriverInv, LinkTypes
<1>1. CASE BeginClose
  <2>1. /\ UNCHANGED <<kind, purpose, readers, worker, pend, flush, status, unseen, shown, reqs,
                       raw, overtaken>>
        /\ life = "wantDisconnect" /\ readers = {} /\ life' = "closing" /\ signalled' = TRUE
        /\ loop' = IF kind # "bambu" /\ loop # "publishing" THEN "gone" ELSE loop
        /\ printer' = IF kind # "bambu"
                        THEN [printer EXCEPT !.watching = FALSE, !.owed = FALSE] ELSE printer
    BY <1>1 DEF BeginClose, CanWrite, fixed, workVars, chanVars, queues, notes
  <2>2. DOMAIN printer' = DOMAIN printer /\ printer'.by = printer.by /\ printer'.job = printer.job
    BY <1>0, <2>1
  <2>3. CallSide'
    BY <2>1, <2>2, PrinterIdles
  <2>4. Locks'
    BY <2>1, LocksKept DEF DriverInv, Serving
  <2>5. LinkTypes'
    BY <2>1, <2>2 DEF DriverInv, LinkTypes, Lives, Writing, Loops
  <2>6. TaskShape' /\ NoFalseConnected'
    BY <2>1 DEF DriverInv, LinkTypes, TaskShape, NoFalseConnected, NoTaskLeft, Begins, Closes, Past
  <2> QED
    BY <2>3, <2>4, <2>5, <2>6, Together DEF LinkSide
<1>2. CASE CloseClient
  <2>1. /\ UNCHANGED <<kind, purpose, readers, loop, signalled, worker, pend, flush, status, unseen,
                       shown, raw, printer, overtaken>>
        /\ life = "closing" /\ kind = "bambu" /\ life' = "joinWorker"
        /\ \/ reqs' = reqs
           \/ reqs' = Append(reqs, "disconnect") /\ Len(reqs) < ReqCap
    BY <1>2 DEF CloseClient, fixed, linkVars, workVars, chanVars, machine, notes
  <2>2. "disconnect" \notin Sends /\ ReqCap \in Nat
    BY LinkAssumption
  <2>3. CallSide'
    BY <2>1, <2>2, CallSideKept
  <2>4. Locks'
    BY <2>1, LocksKept DEF DriverInv, Serving, Locks, Closes
  <2>5. LinkTypes'
    <3>1. reqs' \in Seq(Sends \cup Told \cup ({cmd.op} \ {"none"})) /\ Len(reqs') <= ReqCap
      BY <2>1, <2>2 DEF DriverInv, LinkTypes, Told
    <3> QED
      BY <2>1, <3>1 DEF DriverInv, LinkTypes, Lives, Writing
  <2>6. TaskShape' /\ NoFalseConnected'
    BY <2>1 DEF DriverInv, LinkTypes, TaskShape, NoFalseConnected, NoTaskLeft, Begins, Closes, Past
  <2> QED
    BY <2>3, <2>4, <2>5, <2>6, Together DEF LinkSide
<1>3. CASE JoinWorker
  <2>1. /\ UNCHANGED <<kind, purpose, readers, loop, signalled, flush, status, unseen, shown, reqs,
                       printer, overtaken>>
        /\ life = "joinWorker" /\ life' = "joinLoop" /\ worker' = "gone" /\ raw' = <<>>
        /\ pend' = IF flush = "idle" THEN "none" ELSE pend
    BY <1>3 DEF JoinWorker, fixed, linkVars, chanVars, machine, notes
  <2>2. CallSide'
    BY <2>1, NewsKept DEF Jobs
  <2>3. Locks'
    BY <2>1, LocksKept DEF DriverInv, Serving, Locks, Closes
  <2>4. LinkTypes'
    BY <2>1, LinkAssumption DEF DriverInv, LinkTypes, Lives, Writing
  <2>5. TaskShape' /\ NoFalseConnected'
    BY <2>1 DEF DriverInv, LinkTypes, TaskShape, NoFalseConnected, NoTaskLeft, Begins, Closes, Past
  <2> QED
    BY <2>2, <2>3, <2>4, <2>5, Together DEF LinkSide
<1>4. CASE Disconnect
  <2>1. /\ UNCHANGED <<kind, purpose, readers, signalled, worker, pend, flush, shown, raw, overtaken>>
        /\ life = (IF kind = "bambu" THEN "joinLoop" ELSE "closing")
        /\ life' \in {"down", "removed"} /\ loop' = (IF kind = "bambu" THEN "gone" ELSE loop)
        /\ reqs' = <<>> /\ printer' = [printer EXCEPT !.watching = FALSE, !.owed = FALSE]
        /\ status' = [status EXCEPT !.conn = "Disconnected"] /\ unseen' = Watchers
    BY <1>4 DEF Disconnect, Publish, PublishConn, fixed, workVars, notes
  <2>2. /\ DOMAIN printer' = DOMAIN printer /\ printer'.by = printer.by /\ printer'.job = printer.job
        /\ status'.job = status.job /\ status'.conn = "Disconnected"
    BY <1>0, <2>1
  <2>3. CallSide'
    BY <2>1, <2>2, PrinterIdles
  <2>4. Locks'
    BY <2>1, LocksKept DEF DriverInv, Serving, Locks, Closes
  <2>5. LinkTypes'
    <3>1. reqs' \in Seq(Sends \cup Told \cup ({cmd'.op} \ {"none"})) /\ Len(reqs') <= ReqCap
      BY <2>1, LinkAssumption
    <3>2. status' \in [conn : Connections, job : Jobs] /\ DOMAIN status' = {"conn", "job"}
      BY <2>1 DEF DriverInv, LinkTypes, Connections
    <3> QED
      BY <2>1, <2>2, <3>1, <3>2 DEF DriverInv, LinkTypes, Lives, Writing, Loops
  <2>6. TaskShape' /\ NoFalseConnected'
    <3>1. CASE kind = "bambu"
      <4>1. worker # "run" /\ (worker = "none" => flush = "idle") /\ (flush # "idle" => pend # "none")
        BY <2>1, <3>1 DEF DriverInv, TaskShape
      <4>2. loop' = "gone" /\ signalled
        BY <2>1, <3>1 DEF DriverInv, TaskShape, Closes
      <4> QED
        BY <2>1, <2>2, <3>1, <4>1, <4>2 DEF TaskShape, NoFalseConnected, NoTaskLeft, Begins, Closes, Past
    <3>2. CASE kind # "bambu"
      <4>1. loop \in {"gone", "publishing"} /\ worker = "none" /\ flush = "idle"
        BY <2>1, <3>2 DEF DriverInv, TaskShape, Closes
      <4>2. loop = "publishing" => pend # "none"
        BY DEF DriverInv, TaskShape
      <4>3. signalled
        BY <2>1, <3>2, <4>1 DEF DriverInv, TaskShape, Closes
      <4> QED
        BY <2>1, <2>2, <3>2, <4>1, <4>2, <4>3 DEF TaskShape, NoFalseConnected, NoTaskLeft, Begins, Closes, Past
    <3> QED
      BY <3>1, <3>2
  <2> QED
    BY <2>3, <2>4, <2>5, <2>6, Together DEF LinkSide
<1>5. CASE Remove
  <2>1. /\ UNCHANGED <<kind, purpose, readers, loop, signalled, worker, pend, flush, shown, reqs, raw,
                       printer, overtaken>>
        /\ life = "wantRemove" /\ readers = {} /\ life' = "removed"
        /\ status' = [status EXCEPT !.conn = "Disconnected"] /\ unseen' = Watchers
    BY <1>5 DEF Remove, CanWrite, Publish, PublishConn, fixed, linkVars, workVars, queues,
                machine, notes
  <2>2. status'.job = status.job /\ status'.conn = "Disconnected"
    BY <1>0, <2>1
  <2>3. CallSide'
    BY <2>1, <2>2, CallSideKept
  <2>4. Locks'
    BY <2>1, LocksKept DEF DriverInv, Serving, Closes
  <2>5. LinkTypes'
    BY <2>1, <2>2 DEF DriverInv, LinkTypes, Lives, Connections
  <2>6. TaskShape' /\ NoFalseConnected'
    BY <2>1, <2>2 DEF DriverInv, LinkTypes, TaskShape, NoFalseConnected, NoTaskLeft, Begins, Closes, Past
  <2> QED
    BY <2>3, <2>4, <2>5, <2>6, Together DEF LinkSide
<1>6. CASE \E v \in {"ok", "err", "timeout"} : TestDecides(v)
  <2>1. /\ UNCHANGED <<kind, purpose, readers, loop, signalled, worker, pend, flush, status, shown,
                       reqs, raw, printer, overtaken>>
        /\ life = "up" /\ life' = "wantDisconnect" /\ unseen' = unseen \ {"command"}
    BY <1>6 DEF TestDecides, fixed, linkVars, workVars, queues, machine
  <2>2. CallSide'
    BY <2>1, CallSideKept
  <2>3. Locks'
    BY <2>1, LocksKept DEF DriverInv, Serving, Closes
  <2>4. LinkTypes'
    BY <2>1 DEF DriverInv, LinkTypes, Lives, Writing
  <2>5. TaskShape' /\ NoFalseConnected'
    BY <2>1 DEF DriverInv, TaskShape, NoFalseConnected, NoTaskLeft, Begins, Closes, Past
  <2> QED
    BY <2>2, <2>3, <2>4, <2>5, Together DEF LinkSide
<1> QED
  BY <1>1, <1>2, <1>3, <1>4, <1>5, <1>6

(* The link and its reports. *)
LEMMA LinkSteps ==
  ASSUME DriverInv, UNCHANGED <<sendVars, cmd>>,
         StartWorker \/ LinkUp \/ LinkDown \/ BackoffOver \/ LoopExits \/ PushAll
  PROVE  DriverInv'
<1>0. /\ DOMAIN printer = {"up", "job", "by", "owed", "watching"}
      /\ DOMAIN status = {"conn", "job"}
      /\ \A c \in Connections : [status EXCEPT !.conn = c] \in [conn : Connections, job : Jobs]
  BY DEF DriverInv, LinkTypes
<1>1. CASE StartWorker \/ LinkDown
  <2>1. /\ UNCHANGED <<kind, purpose, life, readers, signalled, worker, pend, flush, shown, reqs,
                       raw, printer, overtaken>>
        /\ loop \in {"start", "poll", "open"} /\ loop' \in {"poll", "backoff"}
        /\ \E c \in {"Connecting", "Reconnecting"} : status' = [status EXCEPT !.conn = c]
        /\ unseen' = Watchers
    BY <1>1 DEF StartWorker, LinkDown, Publish, PublishConn, fixed, lockVars, workVars,
                queues, machine, notes
  <2>2. /\ status'.job = status.job /\ status'.conn \in {"Connecting", "Reconnecting"}
        /\ status' \in [conn : Connections, job : Jobs] /\ DOMAIN status' = {"conn", "job"}
    BY <1>0, <2>1 DEF Connections
  <2>3. CallSide'
    BY <2>1, <2>2, CallSideKept
  <2>4. Locks'
    BY <2>1, LocksKept DEF DriverInv
  <2>5. LinkTypes'
    BY <2>1, <2>2 DEF DriverInv, LinkTypes, Loops
  <2>6. TaskShape' /\ NoFalseConnected'
    <3>1. ~signalled \/ kind = "bambu"
      BY <2>1 DEF DriverInv, TaskShape, NoTaskLeft, Closes, Past
    <3>2. life \notin Past /\ life \notin Begins
      BY <2>1 DEF DriverInv, TaskShape, NoTaskLeft, Past
    <3> QED
      BY <2>1, <2>2, <3>1, <3>2 DEF DriverInv, LinkTypes, TaskShape, NoFalseConnected, NoTaskLeft,
         Begins, Closes, Past
  <2> QED
    BY <2>3, <2>4, <2>5, <2>6, Together DEF LinkSide
<1>2. CASE LinkUp
  <2>1. /\ UNCHANGED <<kind, purpose, life, readers, signalled, worker, flush, status, unseen, shown,
                       reqs, raw, overtaken>>
        /\ loop = "poll"
        /\ \/ kind = "bambu" /\ loop' = "subscribing" /\ UNCHANGED <<pend, printer>>
           \/ /\ kind # "bambu" /\ loop' = "publishing" /\ pend' = printer.job
              /\ printer' = [printer EXCEPT !.watching = TRUE, !.owed = FALSE]
    BY <1>2 DEF LinkUp, fixed, lockVars, chanVars, queues, notes
  <2>2. DOMAIN printer' = DOMAIN printer /\ printer'.by = printer.by /\ printer'.job = printer.job
    BY <1>0, <2>1
  <2>3. CallSide'
    BY <2>1, <2>2, MoonrakerNews
  <2>4. Locks'
    BY <2>1, LocksKept DEF DriverInv
  <2>5. LinkTypes'
    BY <2>1, <2>2 DEF DriverInv, LinkTypes, Loops
  <2>6. TaskShape' /\ NoFalseConnected'
    <3>1. pend' = printer.job => pend' # "none"
      BY DEF DriverInv, LinkTypes, Jobs
    <3> QED
      BY <2>1, <3>1 DEF DriverInv, LinkTypes, TaskShape, NoFalseConnected, NoTaskLeft,
         Begins, Closes, Past
  <2> QED
    BY <2>3, <2>4, <2>5, <2>6, Together DEF LinkSide
<1>3. CASE BackoffOver
  <2>1. /\ UNCHANGED <<kind, purpose, life, readers, signalled, worker, pend, flush, status, unseen,
                       shown, reqs, raw, printer, overtaken>>
        /\ loop = "backoff" /\ loop' = IF kind = "bambu" THEN "poll" ELSE "start"
    BY <1>3 DEF BackoffOver, fixed, lockVars, workVars, chanVars, queues, machine, notes
  <2>2. CallSide'
    BY <2>1, CallSideKept
  <2>3. Locks'
    BY <2>1, LocksKept DEF DriverInv
  <2>4. LinkTypes'
    BY <2>1 DEF DriverInv, LinkTypes, Loops
  <2>5. TaskShape' /\ NoFalseConnected'
    BY <2>1 DEF DriverInv, TaskShape, NoFalseConnected, NoTaskLeft, Begins, Closes, Past
  <2> QED
    BY <2>2, <2>3, <2>4, <2>5, Together DEF LinkSide
<1>4. CASE LoopExits
  <2>1. /\ UNCHANGED <<kind, purpose, life, readers, signalled, worker, pend, flush, status, unseen,
                       shown, raw, overtaken>>
        /\ signalled /\ loop \in {"start", "poll", "open", "backoff"} /\ loop' = "gone"
        /\ reqs' = <<>> /\ printer' = [printer EXCEPT !.watching = FALSE, !.owed = FALSE]
    BY <1>4 DEF LoopExits, fixed, lockVars, workVars, chanVars, notes
  <2>2. DOMAIN printer' = DOMAIN printer /\ printer'.by = printer.by /\ printer'.job = printer.job
    BY <1>0, <2>1
  <2>3. CallSide'
    BY <2>1, <2>2, PrinterIdles
  <2>4. Locks'
    BY <2>1, LocksKept DEF DriverInv
  <2>5. LinkTypes'
    BY <2>1, <2>2, LinkAssumption DEF DriverInv, LinkTypes, Loops
  <2>6. TaskShape' /\ NoFalseConnected'
    BY <2>1 DEF DriverInv, TaskShape, NoFalseConnected, NoTaskLeft, Begins, Closes, Past
  <2> QED
    BY <2>3, <2>4, <2>5, <2>6, Together DEF LinkSide
<1>5. CASE PushAll
  <2>1. /\ UNCHANGED <<kind, purpose, life, readers, signalled, worker, pend, flush, shown, raw,
                       printer, overtaken>>
        /\ loop = "subscribing" /\ loop' = "open"
        /\ Len(reqs) < ReqCap /\ reqs' = Append(reqs, "pushall")
        /\ status' = [status EXCEPT !.conn = "Connected"] /\ unseen' = Watchers
    BY <1>5 DEF PushAll, Publish, PublishConn, fixed, lockVars, workVars, machine, notes
  <2>2. /\ status'.job = status.job /\ "pushall" \notin Sends /\ ReqCap \in Nat
        /\ status' \in [conn : Connections, job : Jobs] /\ DOMAIN status' = {"conn", "job"}
    BY <1>0, <2>1, LinkAssumption DEF Connections
  <2>3. CallSide'
    BY <2>1, <2>2, CallSideKept
  <2>4. Locks'
    BY <2>1, LocksKept DEF DriverInv
  <2>5. LinkTypes'
    <3>1. reqs' \in Seq(Sends \cup Told \cup ({cmd.op} \ {"none"})) /\ Len(reqs') <= ReqCap
      BY <2>1, <2>2 DEF DriverInv, LinkTypes, Told
    <3> QED
      BY <2>1, <2>2, <3>1 DEF DriverInv, LinkTypes, Loops
  <2>6. TaskShape' /\ NoFalseConnected'
    <3>1. life \notin Past /\ life \notin Begins /\ kind = "bambu"
      BY <2>1 DEF DriverInv, TaskShape, NoTaskLeft, Past
    <3> QED
      BY <2>1, <2>2, <3>1 DEF DriverInv, LinkTypes, TaskShape, NoFalseConnected, NoTaskLeft,
         Begins, Closes, Past
  <2> QED
    BY <2>3, <2>4, <2>5, <2>6, Together DEF LinkSide
<1> QED
  BY <1>1, <1>2, <1>3, <1>4, <1>5

(* What a request does to the machine. *)
Starting(r) == r \in Sends \cup {"cali"} /\ Idle(printer.job)
                 /\ printer'.by = r /\ printer'.job = "printing"
Obeying(r) ==
    \/ r = "pause" /\ printer.job = "printing" /\ printer'.job = "paused"
    \/ r = "resume" /\ printer.job = "paused" /\ printer'.job = "printing"
    \/ r = "stop" /\ printer'.job = "failed"

LEMMA ObeysShape ==
  ASSUME LinkTypes, NEW r, r \in Sends \cup Told \cup {"cali", "pause", "resume", "stop"}, Obeys(r)
  PROVE  /\ DOMAIN printer' = DOMAIN printer /\ printer'.job \in Jobs
         /\ printer'.by \in Sends \cup {"screen", "cali"}
         /\ \/ Starting(r)
            \/ printer'.by = printer.by /\ (printer'.job = printer.job \/ Obeying(r))
<1>0. /\ DOMAIN printer = {"up", "job", "by", "owed", "watching"} /\ printer.job \in Jobs
      /\ printer.by \in Sends \cup {"screen", "cali"}
  BY DEF LinkTypes
<1>1. CASE printer' = printer
  BY <1>0, <1>1
<1>2. CASE printer' = [printer EXCEPT !.watching = TRUE, !.owed = TRUE]
  BY <1>0, <1>2
<1>3. ASSUME NEW j \in Jobs, NEW b \in Sends \cup {"screen", "cali"}, Took(j, b)
      PROVE  /\ DOMAIN printer' = DOMAIN printer /\ printer'.job = j /\ printer'.by = b
  BY <1>0, <1>3 DEF Took
<1>4. r \notin {"pushall", "pause", "resume", "stop"} \/ r \notin Sends \cup {"cali"}
  BY LinkAssumption
<1>5. CASE r \in Sends \cup {"cali"} /\ Idle(printer.job) /\ Took("printing", r)
  BY <1>3, <1>5 DEF Starting, Jobs
<1>6. CASE r = "pause" /\ printer.job = "printing" /\ Took("paused", printer.by)
  BY <1>0, <1>3, <1>6 DEF Obeying, Jobs
<1>7. CASE r = "resume" /\ printer.job = "paused" /\ Took("printing", printer.by)
  BY <1>0, <1>3, <1>7 DEF Obeying, Jobs
<1>8. CASE r = "stop" /\ Took("failed", printer.by)
  BY <1>0, <1>3, <1>8 DEF Obeying, Jobs
<1> QED
  BY <1>1, <1>2, <1>4, <1>5, <1>6, <1>7, <1>8 DEF Obeys

(* The link's side does not see a call that leaves its tasks alone. *)
LEMMA LinkKept ==
  ASSUME DriverInv,
         UNCHANGED <<kind, purpose, life, loop, signalled, worker, pend, flush, status, shown, raw,
                     overtaken>>,
         unseen' \subseteq Watchers,
         DOMAIN printer' = DOMAIN printer, printer'.job \in Jobs,
         printer'.by \in Sends \cup {"screen", "cali"},
         reqs' \in Seq(Sends \cup Told \cup ({cmd'.op} \ {"none"})), Len(reqs') <= ReqCap,
         reqs = <<>> => reqs' = <<>> \/ (kind = "bambu" /\ life \in Serving)
  PROVE  LinkSide'
<1>1. LinkTypes'
  BY DEF DriverInv, LinkTypes
<1>2. TaskShape'
  <2>1. CASE reqs' = <<>> \/ reqs # <<>>
    BY <2>1 DEF DriverInv, TaskShape, NoTaskLeft
  <2>2. CASE kind = "bambu" /\ life \in Serving
    BY <2>2 DEF DriverInv, TaskShape, NoTaskLeft, Serving, Begins, Past
  <2> QED
    BY <2>1, <2>2
<1>3. NoFalseConnected'
  BY DEF DriverInv, NoFalseConnected
<1> QED
  BY <1>1, <1>2, <1>3 DEF LinkSide

LEMMA DeliverStep ==
  ASSUME DriverInv, UNCHANGED <<sendVars, cmd>>, Deliver
  PROVE  DriverInv'
<1>0. PICK r : r = Head(reqs)
  OBVIOUS
<1>1. /\ UNCHANGED <<kind, purpose, life, readers, loop, signalled, worker, pend, flush, status,
                     unseen, shown, raw, overtaken>>
      /\ loop = "open" /\ reqs # <<>> /\ reqs' = Tail(reqs) /\ Obeys(r)
  BY <1>0 DEF Deliver, fixed, lockVars, linkVars, workVars, chanVars, notes
<1>2. UNCHANGED <<sendPc, unanswered, cmd>>
  BY DEF sendVars
<1>3. reqs \in Seq(Sends \cup Told \cup ({cmd.op} \ {"none"})) /\ Len(reqs) <= ReqCap /\ ReqCap \in Nat
  BY LinkAssumption DEF DriverInv, LinkTypes
<1>4. /\ r = reqs[1] /\ 1 \in 1..Len(reqs) /\ r \in Sends \cup Told \cup ({cmd.op} \ {"none"})
      /\ reqs' \in Seq(Sends \cup Told \cup ({cmd.op} \ {"none"})) /\ Len(reqs') <= ReqCap
      /\ \A i \in 1..Len(reqs') : reqs'[i] = reqs[i + 1] /\ i + 1 \in 1..Len(reqs) /\ i # 0
  BY <1>0, <1>1, <1>3
<1>5. cmd.op \in {"none", "pause", "resume", "stop", "cali"} /\ kind = "bambu"
  BY <1>1 DEF DriverInv, CallTypes, TaskShape
<1>6. /\ DOMAIN printer' = DOMAIN printer /\ printer'.job \in Jobs
      /\ printer'.by \in Sends \cup {"screen", "cali"}
      /\ \/ Starting(r)
         \/ printer'.by = printer.by /\ (printer'.job = printer.job \/ Obeying(r))
  BY <1>1, <1>4, <1>5, ObeysShape DEF DriverInv
<1>7. LinkSide'
  BY <1>1, <1>2, <1>4, <1>6, LinkKept DEF DriverInv, LinkTypes
<1>8. Locks'
  BY <1>1, LocksKept DEF DriverInv
<1>9. CallTypes' /\ Tokens'
  BY CallsKept DEF DriverInv
<1>10. QueueMove
  BY <1>1, QueueKept DEF DriverInv, Starts
<1>11. r \in Sends => Started(r)' /\ ~Queued(r)' /\ sendPc[r] # "cancelled" /\ cmd.target # r
  <2> SUFFICES ASSUME r \in Sends
               PROVE  Started(r)' /\ ~Queued(r)' /\ sendPc[r] # "cancelled" /\ cmd.target # r
    OBVIOUS
  <2>1. Queued(r)
    BY <1>4 DEF Queued
  <2>2. ~Queued(r)'
    <3> SUFFICES ASSUME NEW i \in 1..Len(reqs'), reqs'[i] = r PROVE FALSE
      BY DEF Queued
    <3>1. i + 1 \in 1..Len(reqs) /\ reqs[i + 1] = r /\ reqs[1] = r /\ 1 \in 1..Len(reqs)
      BY <1>4
    <3>2. i + 1 = 1
      BY <3>1 DEF DriverInv, Starts, OnlyOnce
    <3> QED
      BY <3>2
  <2>3. sendPc[r] \notin Unstarted
    BY <2>1 DEF DriverInv, Starts
  <2>4. cmd.target # r
    BY <2>1 DEF DriverInv, Starts, Started
  <2>5. sendPc[r] # "cancelled"
    BY <1>4, <1>5 DEF DriverInv, CancelIsExact
  <2> QED
    BY <1>2, <2>2, <2>3, <2>4, <2>5 DEF Started
<1>12. printer'.by \in Sends => printer'.by = printer.by \/ (printer'.by = r /\ r \in Sends)
  BY <1>6, LinkAssumption DEF Starting
<1>13. Starts'
  BY <1>2, <1>1, <1>10, <1>11, <1>12 DEF DriverInv, Starts, Started, QueueMove
<1>14. CancelIsExact'
  <2> SUFFICES ASSUME NEW s \in Sends, sendPc[s] = "cancelled"
               PROVE  printer'.by # s /\ \A i \in DOMAIN reqs' : reqs'[i] # s
    BY <1>2 DEF CancelIsExact
  <2>1. printer.by # s /\ ~Queued(s)
    BY <1>3, <1>5 DEF DriverInv, CancelIsExact, Queued
  <2>2. ~Queued(s)'
    BY <2>1, <1>10 DEF QueueMove
  <2> QED
    BY <1>4, <1>11, <1>12, <2>1, <2>2 DEF Queued
<1>15. \A J : Known(J)' <=> Known(J)
  BY <1>1 DEF Known
<1>16. Commanded'
  <2>1. cmd.op \in {"pause", "resume", "stop"} /\ Undone' => Undone
    <3> SUFFICES ASSUME cmd.op \in {"pause", "resume", "stop"}, Undone' PROVE Undone
      OBVIOUS
    <3>1. ~Starting(r)
      <4>1. CASE r \in Sends
        BY <1>2, <1>11, <4>1 DEF Starting, Undone
      <4>2. CASE r \notin Sends
        BY <1>4, <4>2 DEF Starting, Told
      <4> QED
        BY <4>1, <4>2
    <3>2. ~Obeying(r)
      BY <1>2, <1>4, LinkAssumption DEF Obeying, Told, Undone, Before
    <3> QED
      BY <1>2, <1>6, <3>1, <3>2 DEF Undone
  <2>2. cmd.op = "cali" /\ printer'.by = "screen" => printer.by = "screen" /\ printer'.job = printer.job
    BY <1>4, <1>6, LinkAssumption DEF Starting, Obeying, Told
  <2> QED
    BY <1>2, <1>15, <2>1, <2>2 DEF DriverInv, Commanded
<1> QED
  BY <1>7, <1>8, <1>9, <1>13, <1>14, <1>16, Together DEF CallSide

LEMMA ReportSteps ==
  ASSUME DriverInv, UNCHANGED <<sendVars, cmd>>, Report \/ PublishSnapshot
  PROVE  DriverInv'
<1>0. /\ DOMAIN printer = {"up", "job", "by", "owed", "watching"} /\ printer.job \in Jobs
      /\ "none" \notin Jobs
  BY DEF DriverInv, LinkTypes, Jobs
<1>1. CASE Report /\ kind # "bambu"
  <2>1. /\ UNCHANGED <<kind, purpose, life, readers, signalled, worker, flush, status, unseen, shown,
                       reqs, raw, overtaken>>
        /\ loop = "open" /\ loop' = "publishing" /\ pend' = printer.job
        /\ printer' = [printer EXCEPT !.owed = FALSE]
    BY <1>1 DEF Report, fixed, lockVars, chanVars
  <2>2. DOMAIN printer' = DOMAIN printer /\ printer'.by = printer.by /\ printer'.job = printer.job
    BY <1>0, <2>1
  <2>3. CallSide'
    BY <1>1, <2>1, <2>2, MoonrakerNews
  <2>4. Locks'
    BY <2>1, LocksKept DEF DriverInv
  <2>5. LinkTypes'
    BY <1>0, <2>1, <2>2 DEF DriverInv, LinkTypes, Loops
  <2>6. TaskShape' /\ NoFalseConnected'
    BY <1>0, <1>1, <2>1 DEF DriverInv, LinkTypes, TaskShape, NoFalseConnected, NoTaskLeft,
       Begins, Closes, Past
  <2> QED
    BY <2>3, <2>4, <2>5, <2>6, Together DEF LinkSide
<1>2. CASE Report /\ kind = "bambu"
  <2>1. /\ UNCHANGED <<kind, purpose, life, readers, loop, signalled, worker, pend, flush, status,
                       unseen, shown, reqs, overtaken>>
        /\ printer' = [printer EXCEPT !.owed = FALSE]
        /\ raw' = raw \/ (Len(raw) < RawCap /\ raw' = Append(raw, printer.job))
    BY <1>2 DEF Report, fixed, lockVars, chanVars
  <2>2. DOMAIN printer' = DOMAIN printer /\ printer'.by = printer.by /\ printer'.job = printer.job
    BY <1>0, <2>1
  <2>3. raw' \in Seq(Jobs) /\ Len(raw') <= RawCap
    <3>1. raw \in Seq(Jobs) /\ Len(raw) <= RawCap /\ RawCap \in Nat
      BY LinkAssumption DEF DriverInv, LinkTypes
    <3> QED
      BY <1>0, <2>1, <3>1
  <2>4. \A J : Known(J)' => Known(J) \/ printer.job \in J
    <3> SUFFICES ASSUME NEW J, NEW i \in 1..Len(raw'), raw'[i] \in J
                 PROVE  Known(J) \/ printer.job \in J
      BY <2>1 DEF Known
    <3>1. raw \in Seq(Jobs)
      BY DEF DriverInv, LinkTypes
    <3>2. raw'[i] = printer.job \/ (i \in 1..Len(raw) /\ raw'[i] = raw[i])
      BY <2>1, <3>1
    <3> QED
      BY <3>2 DEF Known
  <2>5. UNCHANGED <<sendPc, unanswered, cmd>>
    BY DEF sendVars
  <2>6. CallTypes' /\ Tokens'
    BY CallsKept DEF DriverInv
  <2>7. QueueMove
    BY <2>1, QueueKept DEF DriverInv, Starts
  <2>8. Starts' /\ CancelIsExact'
    BY <2>1, <2>2, <2>5, <2>7, StartsKept DEF DriverInv
  <2>9. Commanded'
    <3>1. cmd.op \in {"pause", "resume", "stop"} /\ Undone =>
            printer.job \notin After(cmd.op)
      BY DEF Undone, Before, After
    <3>2. Idle(printer.job) => printer.job \notin {"printing"}
      BY DEF Idle
    <3>3. Undone' <=> Undone
      BY <2>2, <2>5 DEF Undone
    <3>4. After(cmd.op)' = After(cmd.op)
      BY <2>5
    <3>5. Known(After(cmd.op))' => Known(After(cmd.op)) \/ printer.job \in After(cmd.op)
      BY <2>4, <3>4
    <3>6. Known({"printing"})' => Known({"printing"}) \/ printer.job \in {"printing"}
      BY <2>4
    <3> QED
      BY <2>2, <2>5, <3>1, <3>2, <3>3, <3>5, <3>6 DEF DriverInv, Commanded
  <2>10. Locks'
    BY <2>1, LocksKept DEF DriverInv
  <2>11. LinkTypes'
    BY <2>1, <2>2, <2>3 DEF DriverInv, LinkTypes
  <2>12. TaskShape' /\ NoFalseConnected'
    BY <2>1 DEF DriverInv, TaskShape, NoFalseConnected, NoTaskLeft
  <2> QED
    BY <2>6, <2>8, <2>9, <2>10, <2>11, <2>12, Together DEF LinkSide, CallSide
<1>3. CASE PublishSnapshot
  <2>1. /\ UNCHANGED <<kind, purpose, life, readers, signalled, worker, flush, shown, reqs, raw,
                       printer>>
        /\ loop = "publishing" /\ status' = [conn |-> "Connected", job |-> pend]
        /\ unseen' = Watchers /\ pend' = "none"
        /\ loop' = IF life = "up" \/ ~signalled THEN "open" ELSE "gone"
    BY <1>3 DEF PublishSnapshot, Publish, fixed, lockVars, queues, machine
  <2>2. overtaken' <=> overtaken \/ status.conn = "Disconnected"
    BY <1>3, Zenon DEF PublishSnapshot
  <2>3. kind # "bambu" /\ pend \in Jobs /\ worker = "none" /\ flush = "idle"
    BY <2>1 DEF DriverInv, TaskShape, LinkTypes
  <2>4. CallSide'
    BY <2>1, <2>3, MoonrakerNews
  <2>5. Locks'
    BY <2>1, LocksKept DEF DriverInv
  <2>6. LinkTypes'
    BY <2>1, <2>3 DEF DriverInv, LinkTypes, Loops, Connections
  <2>7. status'.conn = "Connected"
    BY <2>1
  <2>8. NoFalseConnected'
    <3>1. life \in Closes \cup Past \/ ~signalled
      BY DEF DriverInv, TaskShape
    <3>2. life \in Past /\ signalled => overtaken'
      BY <2>2 DEF DriverInv, TaskShape
    <3> QED
      BY <2>1, <3>1, <3>2 DEF NoFalseConnected, Closes
  <2>9. TaskShape'
    <3>1. life \notin Begins /\ (life \in Closes => signalled) /\ (life \in Past => signalled)
      BY <2>1 DEF DriverInv, TaskShape
    <3>2. signalled => life \in Closes \cup Past
      BY DEF DriverInv, TaskShape
    <3>3. life \in Past /\ signalled => overtaken'
      BY <2>2 DEF DriverInv, TaskShape
    <3>4. life = "up" => ~signalled
      BY <3>2 DEF Closes, Past
    <3>5. life \in Closes \cup Past => loop' = "gone"
      BY <2>1, <3>1, <3>4
    <3>6. reqs = <<>>  /\ life \notin {"joinWorker", "joinLoop"}
      BY <2>3 DEF DriverInv, TaskShape
    <3> QED
      BY <2>1, <2>3, <3>1, <3>2, <3>3, <3>5, <3>6 DEF TaskShape, NoTaskLeft, Past
  <2> QED
    BY <2>4, <2>5, <2>6, <2>8, <2>9, Together DEF LinkSide
<1> QED
  BY <1>1, <1>2, <1>3

(* The status worker: the report it merged, and its flush. *)
LEMMA WorkSteps ==
  ASSUME DriverInv, UNCHANGED <<sendVars, cmd>>, WorkerSteps
  PROVE  DriverInv'
<1>0. /\ UNCHANGED <<sendPc, unanswered, cmd>> /\ "none" \notin Jobs
      /\ raw \in Seq(Jobs) /\ Len(raw) <= RawCap /\ RawCap \in Nat
  BY LinkAssumption DEF sendVars, Jobs, DriverInv, LinkTypes
<1>1. ASSUME UNCHANGED <<kind, reqs, printer>>, \A J : "none" \notin J /\ Known(J)' => Known(J)
      PROVE  CallSide'
  <2>1. CallTypes' /\ Tokens'
    BY CallsKept DEF DriverInv
  <2>2. QueueMove
    BY <1>1, QueueKept DEF DriverInv, Starts
  <2>3. Starts' /\ CancelIsExact'
    BY <1>0, <1>1, <2>2, StartsKept DEF DriverInv
  <2>4. Commanded'
    BY <1>0, <1>1, CommandedKept DEF DriverInv
  <2> QED
    BY <2>1, <2>3, <2>4 DEF CallSide
<1>2. CASE MergeReport
  <2>1. /\ UNCHANGED <<kind, purpose, life, readers, loop, signalled, worker, flush, status, unseen,
                       shown, reqs, printer, overtaken>>
        /\ worker = "run" /\ raw # <<>> /\ pend' = Head(raw) /\ raw' = Tail(raw)
    BY <1>2 DEF MergeReport, fixed, lockVars, linkVars, chanVars, machine, notes
  <2>2. /\ pend' = raw[1] /\ 1 \in 1..Len(raw) /\ pend' \in Jobs
        /\ raw' \in Seq(Jobs) /\ Len(raw') <= RawCap
        /\ \A i \in 1..Len(raw') : raw'[i] = raw[i + 1] /\ i + 1 \in 1..Len(raw)
    BY <1>0, <2>1
  <2>3. \A J : Known(J)' => Known(J)
    BY <2>1, <2>2 DEF Known
  <2>4. CallSide'
    BY <1>1, <2>1, <2>3
  <2>5. Locks'
    BY <2>1, LocksKept DEF DriverInv
  <2>6. LinkTypes'
    BY <2>1, <2>2 DEF DriverInv, LinkTypes
  <2>7. TaskShape' /\ NoFalseConnected'
    BY <1>0, <2>1, <2>2 DEF DriverInv, TaskShape, NoFalseConnected, NoTaskLeft
  <2> QED
    BY <2>4, <2>5, <2>6, <2>7, Together DEF LinkSide
<1>3. CASE FlushReads
  <2>1. /\ UNCHANGED <<kind, purpose, life, readers, loop, signalled, worker, pend, status, unseen,
                       shown, reqs, raw, printer, overtaken>>
        /\ worker = "run" /\ pend # "none" /\ flush' = status.conn
    BY <1>3 DEF FlushReads, fixed, lockVars, linkVars, chanVars, queues, machine, notes
  <2>2. CallSide'
    BY <1>1, <2>1 DEF Known
  <2>3. Locks'
    BY <2>1, LocksKept DEF DriverInv
  <2>4. LinkTypes'
    BY <2>1 DEF DriverInv, LinkTypes
  <2>5. TaskShape' /\ NoFalseConnected'
    BY <2>1 DEF DriverInv, TaskShape, NoFalseConnected, NoTaskLeft
  <2> QED
    BY <2>2, <2>3, <2>4, <2>5, Together DEF LinkSide
<1>4. CASE FlushSends
  <2>1. /\ UNCHANGED <<kind, purpose, life, readers, loop, signalled, worker, shown, reqs, raw,
                       printer>>
        /\ flush # "idle" /\ status' = [conn |-> flush, job |-> pend] /\ unseen' = Watchers
        /\ pend' = "none" /\ flush' = "idle"
    BY <1>4 DEF FlushSends, Publish, fixed, lockVars, linkVars, queues, machine
  <2>2. overtaken' <=> overtaken \/ flush # status.conn
    BY <1>4, Zenon DEF FlushSends
  <2>3. worker # "none" /\ kind = "bambu" /\ pend \in Jobs /\ flush \in Connections
    BY <2>1 DEF DriverInv, TaskShape, LinkTypes
  <2>4. status'.conn = flush /\ status'.job = pend
    BY <2>1
  <2>5. CallSide'
    BY <1>1, <2>1, <2>4 DEF Known
  <2>6. Locks'
    BY <2>1, LocksKept DEF DriverInv
  <2>7. LinkTypes'
    BY <2>1, <2>3 DEF DriverInv, LinkTypes
  <2>8. NoFalseConnected'
    BY <2>1, <2>2, <2>4 DEF DriverInv, NoFalseConnected
  <2>9. TaskShape'
    <3>1. life \notin Begins /\ loop # "publishing"
      BY <2>3 DEF DriverInv, TaskShape
    <3>2. signalled /\ life \in Past => overtaken' \/ status'.conn = "Disconnected"
      BY <2>2, <2>4 DEF DriverInv, TaskShape
    <3> QED
      BY <2>1, <2>3, <3>1, <3>2 DEF DriverInv, TaskShape, NoTaskLeft
  <2> QED
    BY <2>5, <2>6, <2>7, <2>8, <2>9, Together DEF LinkSide
<1>5. CASE WorkerExits
  <2>1. /\ UNCHANGED <<kind, purpose, life, readers, loop, signalled, flush, status, unseen, shown,
                       reqs, raw, printer, overtaken>>
        /\ worker = "run" /\ loop = "gone" /\ flush = "idle" /\ worker' = "gone" /\ pend' = "none"
    BY <1>5 DEF WorkerExits, fixed, lockVars, linkVars, chanVars, queues, machine, notes
  <2>2. CallSide'
    BY <1>1, <2>1 DEF Known
  <2>3. Locks'
    BY <2>1, LocksKept DEF DriverInv
  <2>4. LinkTypes'
    BY <2>1 DEF DriverInv, LinkTypes
  <2>5. TaskShape' /\ NoFalseConnected'
    BY <2>1 DEF DriverInv, TaskShape, NoFalseConnected, NoTaskLeft
  <2> QED
    BY <2>2, <2>3, <2>4, <2>5, Together DEF LinkSide
<1> QED
  BY <1>2, <1>3, <1>4, <1>5 DEF WorkerSteps

(* The bridge, the network and the machine itself. *)
LEMMA OutsideSteps ==
  ASSUME DriverInv, UNCHANGED <<sendVars, cmd>>, BridgeSteps \/ DropOff \/ ComeBack \/ JobEnds
  PROVE  DriverInv'
<1>0. /\ DOMAIN printer = {"up", "job", "by", "owed", "watching"} /\ printer.job \in Jobs
      /\ printer.by \in Sends \cup {"screen", "cali"} /\ UNCHANGED <<sendPc, unanswered, cmd>>
  BY DEF DriverInv, LinkTypes, sendVars
<1>1. CASE BridgeSteps
  <2>1. /\ UNCHANGED <<kind, purpose, life, readers, loop, signalled, worker, pend, flush, status,
                       reqs, raw, printer, overtaken>>
        /\ unseen' = unseen \ {"bridge"} /\ shown' \in {shown, status}
    BY <1>1 DEF BridgeSteps, BridgeEmits, fixed, lockVars, linkVars, workVars, queues, machine, notes
  <2>2. CallSide'
    BY <2>1, CallSideKept
  <2>3. Locks'
    BY <2>1, LocksKept DEF DriverInv
  <2>4. LinkTypes'
    BY <2>1 DEF DriverInv, LinkTypes
  <2>5. TaskShape' /\ NoFalseConnected'
    BY <2>1 DEF DriverInv, TaskShape, NoFalseConnected, NoTaskLeft
  <2> QED
    BY <2>2, <2>3, <2>4, <2>5, Together DEF LinkSide
<1>2. CASE DropOff \/ ComeBack \/ JobEnds
  <2>1. /\ UNCHANGED <<kind, purpose, life, readers, loop, signalled, worker, pend, flush, status,
                       unseen, shown, reqs, raw, overtaken>>
    BY <1>2 DEF DropOff, ComeBack, JobEnds, fixed, lockVars, linkVars, workVars, chanVars, queues, notes
  <2>2. /\ DOMAIN printer' = DOMAIN printer /\ printer'.by = printer.by
        /\ printer'.job = printer.job \/ printer'.job = "finished"
    BY <1>0, <1>2 DEF DropOff, ComeBack, JobEnds, Took
  <2>3. LinkSide'
    BY <1>0, <2>1, <2>2, LinkKept DEF DriverInv, LinkTypes, Jobs
  <2>4. Locks'
    BY <2>1, LocksKept DEF DriverInv
  <2>5. CallTypes' /\ Tokens'
    BY CallsKept DEF DriverInv
  <2>6. QueueMove
    BY <2>1, QueueKept DEF DriverInv, Starts
  <2>7. Starts' /\ CancelIsExact'
    BY <1>0, <2>1, <2>2, <2>6, StartsKept DEF DriverInv
  <2>8. Commanded'
    <3>1. CASE printer'.job = printer.job
      BY <1>0, <2>1, <2>2, <3>1, CommandedKept DEF DriverInv, Known
    <3>2. CASE printer'.job = "finished"
      <4>1. ~Undone'
        BY <3>2 DEF Undone, Before
      <4>2. Idle(printer'.job)
        BY <3>2 DEF Idle
      <4>3. Known({"printing"})' <=> Known({"printing"})
        BY <2>1 DEF Known
      <4> QED
        BY <1>0, <2>2, <4>1, <4>2, <4>3 DEF DriverInv, Commanded
    <3> QED
      BY <2>2, <3>1, <3>2
  <2> QED
    BY <2>3, <2>4, <2>5, <2>7, <2>8, Together DEF CallSide
<1> QED
  BY <1>1, <1>2

LEMMA ConnectionKeeps ==
  ASSUME DriverInv, UNCHANGED <<sendVars, cmd>>, ConnNext
  PROVE  DriverInv'
  BY AskSteps, ProbeSteps, CloseSteps, LinkSteps, DeliverStep, ReportSteps, WorkSteps, OutsideSteps
     DEF ConnNext, LoopSteps, CallSteps

-----------------------------------------------------------------------------
(* A send that moves on without starting anything. *)
LEMMA SendMoves ==
  ASSUME DriverInv, NEW s \in Sends, NEW pc, Goto(s, pc),
         pc \in Uploading \cup Outcomes \cup {"payload"},
         UNCHANGED <<kind, cmd, status, pend, raw, printer>>,
         reqs' = reqs \/ \E r : r \notin Sends /\ reqs' = Append(reqs, r),
         unanswered \subseteq unanswered', unanswered' \subseteq Sends, armed' \in Sends \cup {"none"},
         pc \in Unstarted => sendPc[s] \in Unstarted,
         pc \in {"script", "answer"} => kind # "bambu",
         pc = "cancelled" => \/ printer.by # s /\ ~Queued(s)
                             \/ s \in unanswered' /\ kind # "bambu"
  PROVE  CallTypes' /\ Starts' /\ CancelIsExact' /\ Commanded'
<1>1. /\ sendPc \in [Sends -> {"idle", "payload"} \cup Uploading \cup Outcomes]
      /\ reqs \in Seq(Sends \cup Told \cup ({cmd.op} \ {"none"}))
  BY DEF DriverInv, CallTypes, LinkTypes
<1>2. /\ sendPc' \in [Sends -> {"idle", "payload"} \cup Uploading \cup Outcomes]
      /\ sendPc'[s] = pc /\ \A t \in Sends : t # s => sendPc'[t] = sendPc[t]
  BY <1>1 DEF Goto
<1>3. QueueMove
  BY QueueKept DEF DriverInv, Starts
<1>4. CallTypes'
  BY <1>2 DEF DriverInv, CallTypes
<1>5. \A t \in Sends : Started(t) => Started(t)'
  BY <1>2, <1>3 DEF Started, QueueMove
<1>6. Starts'
  <2>1. \A t \in Sends : sendPc'[t] \in Unstarted => ~Queued(t)'
    BY <1>2, <1>3 DEF DriverInv, Starts, QueueMove
  <2>2. \A t \in Sends : printer'.by = t \/ cmd'.target = t => Started(t)'
    BY <1>5 DEF DriverInv, Starts
  <2>3. kind = "bambu" => \A t \in Sends : sendPc'[t] \notin {"script", "answer"}
    BY <1>2 DEF DriverInv, Starts
  <2> QED
    BY <1>3, <2>1, <2>2, <2>3 DEF Starts, QueueMove
<1>7. CancelIsExact'
  <2>1. DOMAIN reqs' = 1..Len(reqs') /\ DOMAIN reqs = 1..Len(reqs)
    BY <1>1
  <2> SUFFICES ASSUME NEW t \in Sends, sendPc'[t] = "cancelled"
               PROVE  \/ printer.by # t /\ ~Queued(t)'
                      \/ t \in unanswered' /\ kind # "bambu"
    BY <2>1 DEF CancelIsExact, Queued
  <2>2. \/ printer.by # t /\ ~Queued(t)
        \/ t \in unanswered' /\ kind # "bambu"
    BY <1>2, <2>1 DEF DriverInv, CancelIsExact, Queued
  <2> QED
    BY <1>3, <2>2 DEF QueueMove
<1>8. \A J : Known(J)' <=> Known(J)
  BY DEF Known
<1>9. Commanded'
  BY <1>8, CommandedKept DEF DriverInv
<1> QED
  BY <1>4, <1>6, <1>7, <1>9

(* The token and the lock follow the send. *)
LEMMA TokenMoves ==
  ASSUME DriverInv, NEW s \in Sends, NEW pc, Goto(s, pc),
         \/ armed' = armed /\ (pc \in Uploading <=> sendPc[s] \in Uploading)
         \/ armed = "none" /\ armed' = s /\ pc \in Uploading
         \/ sendPc[s] \in Uploading /\ armed' = "none" /\ pc \notin Uploading
  PROVE  Tokens'
<1>1. /\ sendPc'[s] = pc /\ \A t \in Sends : t # s => sendPc'[t] = sendPc[t]
  BY DEF DriverInv, CallTypes, Goto
<1>2. "none" \notin Sends
  BY LinkAssumption
<1>3. CASE armed' = armed /\ (pc \in Uploading <=> sendPc[s] \in Uploading)
  BY <1>1, <1>3 DEF DriverInv, Tokens
<1>4. CASE armed = "none" /\ armed' = s /\ pc \in Uploading
  BY <1>1, <1>2, <1>4 DEF DriverInv, Tokens
<1>5. CASE sendPc[s] \in Uploading /\ armed' = "none" /\ pc \notin Uploading
  <2>1. armed = s
    BY <1>5 DEF DriverInv, Tokens
  <2> QED
    BY <1>1, <1>2, <1>5, <2>1 DEF DriverInv, Tokens
<1> QED
  BY <1>3, <1>4, <1>5

LEMMA LockMoves ==
  ASSUME DriverInv, NEW s \in Sends, NEW pc, Goto(s, pc), UNCHANGED <<kind, life, cmd>>,
         \/ readers' = readers /\ (pc \in Reading <=> sendPc[s] \in Reading)
         \/ readers' = readers \cup {s} /\ pc \in Reading /\ CanRead
         \/ readers' = readers \ {s} /\ pc \notin Reading,
         pc = "publish" => life \in Serving,
         pc \in {"pushK", "publish"} => kind = "bambu"
  PROVE  Locks'
<1>1. /\ sendPc'[s] = pc /\ \A t \in Sends : t # s => sendPc'[t] = sendPc[t]
  BY DEF DriverInv, CallTypes, Goto
<1>2. "command" \notin Sends
  BY LinkAssumption
<1>3. readers' = {t \in Sends : sendPc'[t] \in Reading} \cup {c \in {"command"} : cmd.pc \in InCommand}
  <2>0. readers = {t \in Sends : sendPc[t] \in Reading} \cup {c \in {"command"} : cmd.pc \in InCommand}
    BY DEF DriverInv, Locks
  <2>1. CASE readers' = readers /\ (pc \in Reading <=> sendPc[s] \in Reading)
    BY <1>1, <2>0, <2>1
  <2>2. CASE readers' = readers \cup {s} /\ pc \in Reading
    BY <1>1, <1>2, <2>0, <2>2
  <2>3. CASE readers' = readers \ {s} /\ pc \notin Reading
    BY <1>1, <1>2, <2>0, <2>3
  <2> QED
    BY <2>1, <2>2, <2>3
<1>4. readers' # {} => life \notin Closes \cup {"probing"}
  <2>1. readers # {} => life \notin Closes \cup {"probing"}
    BY DEF DriverInv, Locks
  <2>2. CanRead => life \notin Closes \cup {"probing"}
    BY DEF CanRead, Writing, Closes
  <2> QED
    BY <2>1, <2>2
<1>5. \A t \in Sends : sendPc'[t] = "publish" => life \in Serving
  BY <1>1 DEF DriverInv, Locks
<1>6. kind # "bambu" =>
        /\ cmd.pc \notin {"sent", "waiting", "result"} /\ cmd.op # "cali"
        /\ \A t \in Sends : sendPc'[t] \notin {"pushK", "publish"}
  BY <1>1 DEF DriverInv, Locks
<1> QED
  BY <1>3, <1>4, <1>5, <1>6 DEF Locks

LEMMA SendSetsOut ==
  ASSUME DriverInv, NEW s \in Sends, IssueSend(s) \/ PayloadFails(s) \/ Arm(s)
  PROVE  DriverInv'
<1>1. /\ UNCHANGED <<kind, purpose, life, readers, loop, signalled, worker, pend, flush, status,
                     unseen, shown, reqs, raw, printer, overtaken, unanswered, cmd>>
  BY DEF IssueSend, PayloadFails, Arm, connVars, fixed, lockVars, linkVars, workVars, chanVars,
         queues, machine, notes
<1>2. /\ unanswered \subseteq Sends /\ armed \in Sends \cup {"none"}
      /\ reqs \in Seq(Sends \cup Told \cup ({cmd.op} \ {"none"})) /\ Len(reqs) <= ReqCap
      /\ printer.job \in Jobs /\ printer.by \in Sends \cup {"screen", "cali"} /\ unseen \subseteq Watchers
  BY DEF DriverInv, CallTypes, LinkTypes
<1>3. LinkSide'
  BY <1>1, <1>2, LinkKept
<1>4. ASSUME NEW pc \in {"payload", "err", "lock", "rejected"}, Goto(s, pc),
             sendPc[s] \in {"idle", "payload"}, armed' \in Sends \cup {"none"}, Tokens'
      PROVE  DriverInv'
  <2>1. pc \in Uploading \cup Outcomes \cup {"payload"} /\ pc \notin {"script", "answer", "cancelled"}
        /\ pc \notin {"pushK", "publish"} /\ pc \notin Reading /\ sendPc[s] \notin Reading
        /\ (pc \in Unstarted => sendPc[s] \in Unstarted)
    BY <1>4 DEF Uploading, Outcomes, Reading, Unstarted
  <2>2. CallTypes' /\ Starts' /\ CancelIsExact' /\ Commanded'
    BY <1>1, <1>2, <1>4, <2>1, SendMoves
  <2>3. Locks'
    BY <1>1, <1>4, <2>1, LockMoves
  <2> QED
    BY <1>3, <1>4, <2>2, <2>3, Together DEF CallSide
<1>5. CASE IssueSend(s)
  <2>1. Goto(s, "payload") /\ sendPc[s] = "idle" /\ armed' = armed
    BY <1>5 DEF IssueSend
  <2>2. Tokens'
    BY <2>1, TokenMoves DEF Uploading
  <2> QED
    BY <1>2, <1>4, <2>1, <2>2
<1>6. CASE PayloadFails(s)
  <2>1. Goto(s, "err") /\ sendPc[s] = "payload" /\ armed' = armed
    BY <1>6 DEF PayloadFails
  <2>2. Tokens'
    BY <2>1, TokenMoves DEF Uploading
  <2> QED
    BY <1>2, <1>4, <2>1, <2>2
<1>7. CASE Arm(s) /\ armed = "none"
  <2>1. Goto(s, "lock") /\ sendPc[s] = "payload" /\ armed' = s
    BY <1>7 DEF Arm
  <2>2. Tokens'
    BY <1>7, <2>1, TokenMoves DEF Uploading
  <2> QED
    BY <1>4, <2>1, <2>2
<1>8. CASE Arm(s) /\ armed # "none"
  <2>1. Goto(s, "rejected") /\ sendPc[s] = "payload" /\ armed' = armed
    BY <1>8 DEF Arm
  <2>2. Tokens'
    BY <2>1, TokenMoves DEF Uploading
  <2> QED
    BY <1>2, <1>4, <2>1, <2>2
<1> QED
  BY <1>5, <1>6, <1>7, <1>8

(* Under the lock, up to the request that starts the print. *)
LEMMA SendGoesOn ==
  ASSUME DriverInv, NEW s \in Sends,
         LockForSend(s) \/ PushK(s) \/ (Upload(s) /\ kind # "moonraker")
  PROVE  DriverInv'
<1>1. /\ UNCHANGED <<kind, purpose, life, loop, signalled, worker, pend, flush, status, unseen,
                     shown, raw, printer, overtaken, armed, unanswered, cmd>>
      /\ kind \in {"bambu", "moonraker", "u1"}
  BY LinkAssumption DEF LockForSend, PushK, Upload, connUnlocked, fixed, linkVars, workVars,
     chanVars, notes, DriverInv, LinkTypes
<1>2. /\ unanswered \subseteq Sends /\ armed \in Sends \cup {"none"}
      /\ reqs \in Seq(Sends \cup Told \cup ({cmd.op} \ {"none"})) /\ Len(reqs) <= ReqCap /\ ReqCap \in Nat
      /\ printer.job \in Jobs /\ printer.by \in Sends \cup {"screen", "cali"} /\ unseen \subseteq Watchers
  BY LinkAssumption DEF DriverInv, CallTypes, LinkTypes
<1>3. ASSUME NEW pc \in {"pushK", "upload", "publish", "script"}, Goto(s, pc),
             sendPc[s] \in {"lock", "pushK", "upload"},
             \/ readers' = readers /\ sendPc[s] # "lock"
             \/ readers' = readers \cup {s} /\ CanRead,
             pc = "publish" => life \in Serving,
             pc \in {"pushK", "publish"} => kind = "bambu", pc = "script" => kind # "bambu",
             \/ reqs' = reqs
             \/ Len(reqs) < ReqCap /\ reqs' = Append(reqs, "setK") /\ kind = "bambu" /\ life \in Serving
      PROVE  DriverInv'
  <2>1. /\ pc \in Uploading \cup Outcomes \cup {"payload"} /\ pc \notin {"answer", "cancelled"}
        /\ pc \in Reading /\ (sendPc[s] # "lock" => sendPc[s] \in Reading)
        /\ pc \in Uploading /\ sendPc[s] \in Uploading
        /\ sendPc[s] \in Unstarted /\ "setK" \notin Sends
    BY <1>3, LinkAssumption DEF Uploading, Outcomes, Reading, Unstarted
  <2>2. reqs' \in Seq(Sends \cup Told \cup ({cmd'.op} \ {"none"})) /\ Len(reqs') <= ReqCap
    BY <1>1, <1>2, <1>3 DEF Told
  <2>3. LinkSide'
    BY <1>1, <1>2, <1>3, <2>2, LinkKept
  <2>4. CallTypes' /\ Starts' /\ CancelIsExact' /\ Commanded'
    BY <1>1, <1>2, <1>3, <2>1, SendMoves
  <2>5. Tokens'
    BY <1>1, <1>3, <2>1, TokenMoves
  <2>6. Locks'
    BY <1>1, <1>3, <2>1, LockMoves
  <2> QED
    BY <2>3, <2>4, <2>5, <2>6, Together DEF CallSide
<1>4. CASE LockForSend(s)
  <2>1. PICK pushK \in {FALSE} \cup {kind = "bambu"} : Goto(s, IF pushK THEN "pushK" ELSE "upload")
    BY <1>4 DEF LockForSend
  <2>2. \E pc \in {"pushK", "upload"} : Goto(s, pc) /\ (pc = "pushK" => kind = "bambu")
    <3>1. CASE pushK
      BY <2>1, <3>1, Zenon
    <3>2. CASE ~pushK
      BY <2>1, <3>2, Zenon
    <3> QED
      BY <3>1, <3>2
  <2>3. sendPc[s] = "lock" /\ CanRead /\ readers' = readers \cup {s} /\ reqs' = reqs
    BY <1>4 DEF LockForSend
  <2> QED
    BY <1>3, <2>2, <2>3
<1>5. CASE PushK(s)
  <2>1. /\ sendPc[s] = "pushK" /\ Goto(s, "upload") /\ readers' = readers
        /\ reqs' = reqs \/ (HasClient /\ Len(reqs) < ReqCap /\ reqs' = Append(reqs, "setK"))
    BY <1>5 DEF PushK
  <2>2. kind = "bambu"
    BY <2>1 DEF DriverInv, Locks
  <2> QED
    BY <1>3, <2>1, <2>2 DEF HasClient, Serving
<1>6. CASE Upload(s) /\ kind # "moonraker"
  <2>1. /\ sendPc[s] = "upload" /\ readers' = readers /\ reqs' = reqs
        /\ \/ kind = "bambu" /\ HasClient /\ Goto(s, "publish")
           \/ kind = "u1" /\ Goto(s, "script")
    BY <1>1, <1>6 DEF Upload
  <2> QED
    BY <1>3, <2>1 DEF HasClient, Serving
<1> QED
  BY <1>4, <1>5, <1>6

(* The print starts with the request that is made now. *)
LEMMA SendStarts ==
  ASSUME DriverInv, NEW s \in Sends, StartScript(s) \/ (Upload(s) /\ kind = "moonraker")
  PROVE  DriverInv'
<1>1. /\ UNCHANGED <<kind, purpose, life, readers, loop, signalled, worker, pend, flush, status,
                     unseen, shown, reqs, raw, overtaken, armed, unanswered, cmd>>
      /\ sendPc[s] \in {"upload", "script"} /\ Goto(s, "answer") /\ Obeys(s)
  BY DEF StartScript, Upload, connUnlocked, fixed, linkVars, workVars, chanVars, notes
<1>2. /\ unanswered \subseteq Sends /\ armed \in Sends \cup {"none"}
      /\ reqs \in Seq(Sends \cup Told \cup ({cmd.op} \ {"none"})) /\ Len(reqs) <= ReqCap
      /\ unseen \subseteq Watchers
      /\ sendPc \in [Sends -> {"idle", "payload"} \cup Uploading \cup Outcomes]
  BY DEF DriverInv, CallTypes, LinkTypes
<1>3. kind # "bambu" /\ cmd.pc \notin {"sent", "waiting", "result"} /\ cmd.op # "cali"
  BY <1>1 DEF DriverInv, Starts, StartScript, Locks
<1>4. /\ DOMAIN printer' = DOMAIN printer /\ printer'.job \in Jobs
      /\ printer'.by \in Sends \cup {"screen", "cali"}
      /\ \/ Starting(s)
         \/ printer'.by = printer.by /\ (printer'.job = printer.job \/ Obeying(s))
  BY <1>1, ObeysShape DEF DriverInv
<1>5. ~Obeying(s)
  BY LinkAssumption DEF Obeying
<1>6. /\ printer'.by = s \/ (printer'.by = printer.by /\ printer'.job = printer.job)
      /\ ~Started(s) /\ cmd.target # s /\ printer.by # s /\ ~Queued(s)
  BY <1>1, <1>4, <1>5 DEF Starting, DriverInv, Starts, Started, Unstarted
<1>7. /\ sendPc'[s] = "answer" /\ \A t \in Sends : t # s => sendPc'[t] = sendPc[t]
      /\ sendPc' \in [Sends -> {"idle", "payload"} \cup Uploading \cup Outcomes]
  BY <1>1, <1>2 DEF Goto, Uploading
<1>8. LinkSide'
  BY <1>1, <1>2, <1>4, LinkKept
<1>9. Locks'
  BY <1>1, LockMoves DEF Reading
<1>10. Tokens'
  BY <1>1, TokenMoves DEF Uploading
<1>11. CallTypes'
  BY <1>1, <1>7 DEF DriverInv, CallTypes
<1>12. Starts'
  <2>1. QueueMove
    BY <1>1 DEF QueueMove, Queued, DriverInv, Starts, OnlyOnce
  <2>2. Started(s)' /\ \A t \in Sends : Started(t) => Started(t)'
    BY <1>1, <1>6, <1>7 DEF Started, Queued, Unstarted
  <2>3. \A t \in Sends : sendPc'[t] \in Unstarted => ~Queued(t)'
    BY <1>1, <1>6, <1>7 DEF DriverInv, Starts, Queued
  <2>4. \A t \in Sends : printer'.by = t \/ cmd'.target = t => Started(t)'
    BY <1>1, <1>6, <2>2 DEF DriverInv, Starts
  <2> QED
    BY <1>1, <1>3, <2>1, <2>3, <2>4 DEF Starts, QueueMove
<1>13. CancelIsExact'
  BY <1>1, <1>6, <1>7 DEF DriverInv, CancelIsExact
<1>14. Commanded'
  BY <1>1, <1>3, <1>6 DEF DriverInv, Commanded, Undone
<1> QED
  BY <1>8, <1>9, <1>10, <1>11, <1>12, <1>13, <1>14, Together DEF CallSide

LEMMA SendEnds ==
  ASSUME DriverInv, NEW s \in Sends, Answered(s) \/ SendFails(s) \/ CancelWins(s)
  PROVE  DriverInv'
<1>1. /\ UNCHANGED <<kind, purpose, life, loop, signalled, worker, pend, flush, status, unseen,
                     shown, reqs, raw, printer, overtaken, cmd>>
      /\ sendPc[s] \in {"upload", "publish", "script", "answer"}
      /\ armed' = "none" /\ readers' = readers \ {s}
  BY DEF Answered, SendFails, CancelWins, Finish, connUnlocked, fixed, linkVars, workVars,
         chanVars, notes
<1>2. /\ unanswered \subseteq Sends
      /\ reqs \in Seq(Sends \cup Told \cup ({cmd.op} \ {"none"})) /\ Len(reqs) <= ReqCap
      /\ printer.job \in Jobs /\ printer.by \in Sends \cup {"screen", "cali"} /\ unseen \subseteq Watchers
  BY DEF DriverInv, CallTypes, LinkTypes
<1>3. LinkSide'
  BY <1>1, <1>2, LinkKept
<1>4. ASSUME NEW pc \in {"ok", "err", "cancelled"}, Goto(s, pc), unanswered \subseteq unanswered',
             unanswered' \subseteq Sends,
             pc = "cancelled" => \/ printer.by # s /\ ~Queued(s)
                                 \/ s \in unanswered' /\ kind # "bambu"
      PROVE  DriverInv'
  <2>1. /\ pc \in Uploading \cup Outcomes \cup {"payload"} /\ pc \notin Unstarted
        /\ pc \notin Reading /\ pc \notin Uploading
        /\ sendPc[s] \in Uploading
    BY <1>1, <1>4 DEF Uploading, Outcomes, Reading, Unstarted
  <2>2. CallTypes' /\ Starts' /\ CancelIsExact' /\ Commanded'
    BY <1>1, <1>4, <2>1, SendMoves
  <2>3. Tokens'
    BY <1>1, <1>4, <2>1, TokenMoves
  <2>4. Locks'
    BY <1>1, <1>4, <2>1, LockMoves
  <2> QED
    BY <1>3, <2>2, <2>3, <2>4, Together DEF CallSide
<1>5. CASE Answered(s) \/ SendFails(s)
  <2>1. /\ Goto(s, "ok") \/ Goto(s, "err")
        /\ unanswered' = unanswered
    BY <1>5 DEF Answered, SendFails, Finish
  <2> QED
    BY <1>2, <1>4, <2>1
<1>6. CASE CancelWins(s)
  <2>1. /\ Goto(s, "cancelled") /\ unanswered \subseteq unanswered' /\ unanswered' \subseteq Sends
        /\ sendPc[s] = "answer" => s \in unanswered'
    BY <1>2, <1>6 DEF CancelWins, Finish
  <2>2. CASE sendPc[s] = "answer"
    BY <1>4, <2>1, <2>2 DEF DriverInv, Starts
  <2>3. CASE sendPc[s] \in Unstarted
    BY <1>4, <2>1, <2>3 DEF DriverInv, Starts, Started
  <2> QED
    BY <1>1, <2>2, <2>3 DEF Unstarted
<1> QED
  BY <1>5, <1>6

LEMMA SendPublishes ==
  ASSUME DriverInv, NEW s \in Sends, PublishStart(s)
  PROVE  DriverInv'
<1>1. /\ UNCHANGED <<kind, purpose, life, loop, signalled, worker, pend, flush, status, unseen,
                     shown, raw, printer, overtaken, unanswered, cmd>>
      /\ sendPc[s] = "publish" /\ Goto(s, "ok") /\ armed' = "none" /\ readers' = readers \ {s}
      /\ Len(reqs) < ReqCap /\ reqs' = Append(reqs, s)
  BY DEF PublishStart, Finish, connUnlocked, fixed, linkVars, workVars, chanVars, notes
<1>2. /\ unanswered \subseteq Sends /\ ReqCap \in Nat
      /\ reqs \in Seq(Sends \cup Told \cup ({cmd.op} \ {"none"})) /\ Len(reqs) <= ReqCap
      /\ printer.job \in Jobs /\ printer.by \in Sends \cup {"screen", "cali"} /\ unseen \subseteq Watchers
      /\ sendPc \in [Sends -> {"idle", "payload"} \cup Uploading \cup Outcomes]
  BY LinkAssumption DEF DriverInv, CallTypes, LinkTypes
<1>3. /\ reqs' \in Seq(Sends \cup Told \cup ({cmd'.op} \ {"none"})) /\ Len(reqs') = Len(reqs) + 1
      /\ reqs'[Len(reqs) + 1] = s /\ \A i \in 1..Len(reqs) : reqs'[i] = reqs[i]
      /\ Len(reqs) \in Nat /\ DOMAIN reqs = 1..Len(reqs) /\ DOMAIN reqs' = 1..Len(reqs')
  BY <1>1, <1>2
<1>4. \A i \in 1..Len(reqs') : i = Len(reqs) + 1 \/ (i \in 1..Len(reqs) /\ reqs'[i] = reqs[i])
  BY <1>3
<1>5. kind = "bambu" /\ life \in Serving /\ printer.by # s /\ cmd.target # s /\ ~Queued(s)
  BY <1>1 DEF DriverInv, Locks, Starts, Started, Unstarted
<1>6. /\ sendPc'[s] = "ok" /\ \A t \in Sends : t # s => sendPc'[t] = sendPc[t]
      /\ sendPc' \in [Sends -> {"idle", "payload"} \cup Uploading \cup Outcomes]
  BY <1>1, <1>2 DEF Goto, Outcomes
<1>7. LinkSide'
  BY <1>1, <1>2, <1>3, <1>5, LinkKept
<1>8. Locks'
  BY <1>1, LockMoves DEF Reading
<1>9. Tokens'
  BY <1>1, TokenMoves DEF Uploading
<1>10. CallTypes'
  BY <1>1, <1>6 DEF DriverInv, CallTypes
<1>11. \A t \in Sends : t # s /\ Queued(t)' => Queued(t)
  BY <1>3, <1>4 DEF Queued
<1>12. OnlyOnce'
  <2> SUFFICES ASSUME NEW t \in Sends, NEW i \in 1..Len(reqs'), NEW k \in 1..Len(reqs'),
                      reqs'[i] = t, reqs'[k] = t
               PROVE  i = k
    BY DEF OnlyOnce
  <2>1. CASE t = s
    BY <1>4, <1>5, <2>1 DEF Queued
  <2>2. CASE t # s
    BY <1>3, <1>4, <2>2 DEF DriverInv, Starts, OnlyOnce
  <2> QED
    BY <2>1, <2>2
<1>13. Starts'
  <2>1. \A t \in Sends : t # s /\ Started(t) => Started(t)'
    BY <1>6, <1>11 DEF Started
  <2>2. \A t \in Sends : sendPc'[t] \in Unstarted => ~Queued(t)'
    BY <1>6, <1>11 DEF DriverInv, Starts, Unstarted
  <2>3. \A t \in Sends : printer'.by = t \/ cmd'.target = t => Started(t)'
    BY <1>1, <1>5, <2>1 DEF DriverInv, Starts
  <2>4. \A t \in Sends : sendPc'[t] \notin {"script", "answer"}
    BY <1>5, <1>6 DEF DriverInv, Starts
  <2> QED
    BY <1>12, <2>2, <2>3, <2>4 DEF Starts
<1>14. CancelIsExact'
  <2> SUFFICES ASSUME NEW t \in Sends, sendPc'[t] = "cancelled"
               PROVE  printer.by # t /\ ~Queued(t)'
    BY <1>1, <1>3 DEF CancelIsExact, Queued
  <2> QED
    BY <1>3, <1>5, <1>6, <1>11 DEF DriverInv, CancelIsExact, Queued
<1>15. \A J : Known(J)' <=> Known(J)
  BY <1>1 DEF Known
<1>16. Commanded'
  BY <1>1, <1>15, CommandedKept DEF DriverInv
<1> QED
  BY <1>7, <1>8, <1>9, <1>10, <1>13, <1>14, <1>16, Together DEF CallSide

(* Pressing Cancel alone changes no more than the token. *)
LEMMA CancelAsked ==
  ASSUME DriverInv, Cancel
  PROVE  DriverInv'
<1>1. /\ UNCHANGED <<kind, purpose, life, readers, loop, signalled, worker, pend, flush, status,
                     unseen, shown, reqs, raw, printer, overtaken, sendPc, armed, unanswered, cmd>>
  BY DEF Cancel, connVars, fixed, lockVars, linkVars, workVars, chanVars, queues, machine, notes
<1>2. LinkTypes' /\ CallTypes' /\ Tokens'
  BY <1>1 DEF DriverInv, LinkTypes, CallTypes, Tokens
<1>3. TaskShape' /\ NoFalseConnected'
  BY <1>1 DEF DriverInv, TaskShape, NoTaskLeft, NoFalseConnected
<1>4. Locks' /\ Starts' /\ CancelIsExact'
  BY <1>1 DEF DriverInv, Locks, Starts, Started, Queued, OnlyOnce, CancelIsExact
<1>5. Commanded'
  BY <1>1, CommandedKept DEF DriverInv, Known
<1> QED
  BY <1>2, <1>3, <1>4, <1>5 DEF DriverInv

LEMMA SendsKeep ==
  ASSUME DriverInv, NEW s \in Sends, IssueSend(s) \/ SendSteps(s)
  PROVE  DriverInv'
  BY SendSetsOut, SendGoesOn, SendStarts, SendEnds, SendPublishes DEF SendSteps

-----------------------------------------------------------------------------
(* A command leaves the sends as they are: no send is its target unless it    *)
(* has started.                                                               *)
LEMMA CommandMoves ==
  ASSUME DriverInv, UNCHANGED <<kind, purpose, life, loop, signalled, worker, pend, flush, status,
                                shown, raw, printer, overtaken, sendVars>>,
         unseen' \subseteq Watchers,
         CallTypes', Locks', Commanded',
         cmd'.target \in {cmd.target, printer.by, "none"},
         \/ reqs' = reqs /\ cmd'.op \in {cmd.op} \cup (IF cmd.op = "none" THEN {cmd'.op} ELSE {})
         \/ /\ kind = "bambu" /\ life \in Serving /\ cmd'.op = cmd.op /\ cmd.op # "none"
            /\ Len(reqs) < ReqCap /\ reqs' = Append(reqs, cmd.op)
  PROVE  DriverInv'
<1>1. /\ UNCHANGED <<sendPc, armed, unanswered>>
      /\ reqs \in Seq(Sends \cup Told \cup ({cmd.op} \ {"none"})) /\ Len(reqs) <= ReqCap /\ ReqCap \in Nat
      /\ printer.job \in Jobs /\ printer.by \in Sends \cup {"screen", "cali"}
      /\ cmd.op \notin Sends /\ "none" \notin Sends
  BY LinkAssumption DEF sendVars, DriverInv, LinkTypes, CallTypes
<1>2. reqs' \in Seq(Sends \cup Told \cup ({cmd'.op} \ {"none"})) /\ Len(reqs') <= ReqCap
  BY <1>1
<1>3. LinkSide'
  BY <1>1, <1>2, LinkKept
<1>4. Tokens'
  BY <1>1 DEF DriverInv, Tokens
<1>5. QueueMove
  BY <1>1, QueueKept DEF DriverInv, Starts
<1>6. \A s \in Sends : Started(s) => Started(s)'
  BY <1>1, <1>5 DEF Started, QueueMove
<1>7. Starts'
  <2>1. \A s \in Sends : printer'.by = s \/ cmd'.target = s => Started(s)'
    BY <1>1, <1>6 DEF DriverInv, Starts
  <2>2. \A s \in Sends : sendPc'[s] \in Unstarted => ~Queued(s)'
    BY <1>1, <1>5 DEF DriverInv, Starts, QueueMove
  <2> QED
    BY <1>1, <1>5, <2>1, <2>2 DEF DriverInv, Starts, QueueMove
<1>8. CancelIsExact'
  <2>1. DOMAIN reqs = 1..Len(reqs) /\ DOMAIN reqs' = 1..Len(reqs')
    BY <1>1, <1>2
  <2> SUFFICES ASSUME NEW s \in Sends, sendPc[s] = "cancelled"
               PROVE  \/ printer.by # s /\ ~Queued(s)'
                      \/ s \in unanswered /\ kind # "bambu"
    BY <1>1, <2>1 DEF CancelIsExact, Queued
  <2>2. \/ printer.by # s /\ ~Queued(s)
        \/ s \in unanswered /\ kind # "bambu"
    BY <2>1 DEF DriverInv, CancelIsExact, Queued
  <2> QED
    BY <1>5, <2>2 DEF QueueMove
<1> QED
  BY <1>3, <1>4, <1>7, <1>8, Together DEF CallSide

(* The command holds the lock from its check to its end. *)
LEMMA CommandLock ==
  ASSUME DriverInv, UNCHANGED <<kind, life, sendPc>>,
         \/ readers' = readers /\ (cmd'.pc \in InCommand <=> cmd.pc \in InCommand)
         \/ readers' = readers \cup {"command"} /\ cmd'.pc \in InCommand /\ CanRead
         \/ readers' = readers \ {"command"} /\ cmd'.pc \notin InCommand,
         kind # "bambu" => cmd'.pc \notin {"sent", "waiting", "result"} /\ cmd'.op # "cali"
  PROVE  Locks'
<1>1. "command" \notin Sends
  BY LinkAssumption
<1>2. readers = {s \in Sends : sendPc[s] \in Reading} \cup {c \in {"command"} : cmd.pc \in InCommand}
  BY DEF DriverInv, Locks
<1>3. readers' = {s \in Sends : sendPc[s] \in Reading} \cup {c \in {"command"} : cmd'.pc \in InCommand}
  BY <1>1, <1>2
<1>4. readers' # {} => life \notin Closes \cup {"probing"}
  <2>1. readers # {} => life \notin Closes \cup {"probing"}
    BY DEF DriverInv, Locks
  <2>2. CanRead => life \notin Closes \cup {"probing"}
    BY DEF CanRead, Writing, Closes
  <2> QED
    BY <2>1, <2>2
<1> QED
  BY <1>3, <1>4 DEF DriverInv, Locks

LEMMA CommandBegins ==
  ASSUME DriverInv, (\E op \in Commands : IssueCommand(op)) \/ LockForCommand
  PROVE  DriverInv'
<1>0. DOMAIN cmd = {"op", "pc", "started", "settled", "target"}
  BY DEF DriverInv, CallTypes
<1>1. /\ UNCHANGED <<kind, purpose, life, loop, signalled, worker, pend, flush, status, unseen,
                     shown, reqs, raw, printer, overtaken, sendVars, sendPc, armed, unanswered>>
  BY DEF IssueCommand, LockForCommand, connUnlocked, connVars, fixed, lockVars, linkVars, workVars,
         chanVars, queues, machine, notes, sendVars
<1>2. unseen \subseteq Watchers /\ printer.by \in Sends \cup {"screen", "cali"} /\ "none" \notin Sends
  BY LinkAssumption DEF DriverInv, LinkTypes
<1>3. ASSUME NEW op \in Commands, IssueCommand(op) PROVE DriverInv'
  <2>1. op \in {"pause", "resume", "stop", "cali"} /\ (op = "cali" => kind = "bambu")
    BY <1>3, CommandsAssumption DEF IssueCommand
  <2>2. /\ cmd' = [op |-> op, pc |-> "lock", started |-> FALSE, settled |-> TRUE, target |-> "none"]
        /\ cmd.pc = "idle" /\ cmd.op = "none" /\ readers' = readers
    BY <1>3 DEF IssueCommand, NoCommand, connVars, lockVars, DriverInv, CallTypes
  <2>3. CallTypes'
    BY <1>1, <2>1, <2>2 DEF DriverInv, CallTypes
  <2>4. Locks'
    BY <1>1, <2>1, <2>2, CommandLock DEF InCommand
  <2>5. Commanded'
    BY <1>1, <1>2, <2>2 DEF Commanded, Undone
  <2> QED
    BY <1>1, <1>2, <2>2, <2>3, <2>4, <2>5, CommandMoves
<1>4. CASE LockForCommand
  <2>1. cmd.pc = "lock" /\ CanRead /\ readers' = readers \cup {"command"} /\ cmd' = [cmd EXCEPT !.pc = "check"]
    BY <1>4 DEF LockForCommand, Step
  <2>2. /\ DOMAIN cmd' = {"op", "pc", "started", "settled", "target"} /\ cmd'.pc = "check"
        /\ cmd'.op = cmd.op /\ cmd'.target = cmd.target /\ cmd'.started = cmd.started
    BY <1>0, <2>1
  <2>3. CallTypes'
    BY <1>1, <2>1, <2>2 DEF DriverInv, CallTypes, InCommand
  <2>4. Locks'
    BY <1>1, <2>1, <2>2, CommandLock DEF DriverInv, Locks, InCommand
  <2>5. Commanded'
    BY <2>1, <2>2 DEF DriverInv, Commanded
  <2> QED
    BY <1>1, <1>2, <2>2, <2>3, <2>4, <2>5, CommandMoves
<1> QED
  BY <1>3, <1>4

LEMMA CommandPublishes ==
  ASSUME DriverInv, PublishCommand
  PROVE  DriverInv'
<1>0. DOMAIN cmd = {"op", "pc", "started", "settled", "target"}
  BY DEF DriverInv, CallTypes
<1>1. /\ UNCHANGED <<kind, purpose, life, loop, signalled, worker, pend, flush, status, unseen,
                     shown, raw, printer, overtaken, sendVars, sendPc, armed, unanswered>>
      /\ cmd.pc = "check" /\ kind = "bambu" /\ cmd.op # "none"
  BY DEF PublishCommand, connUnlocked, fixed, linkVars, workVars, chanVars, notes, sendVars,
         DriverInv, CallTypes
<1>2. unseen \subseteq Watchers /\ printer.by \in Sends \cup {"screen", "cali"} /\ "none" \notin Sends
  BY LinkAssumption DEF DriverInv, LinkTypes
<1>3. CASE HasClient /\ Allowed(cmd.op, status.job)
  <2>1. /\ Len(reqs) < ReqCap /\ reqs' = Append(reqs, cmd.op) /\ readers' = readers
        /\ cmd' = [cmd EXCEPT !.pc = "sent", !.target = printer.by, !.settled = Settled(cmd.op)]
    BY <1>3 DEF PublishCommand
  <2>2. /\ DOMAIN cmd' = {"op", "pc", "started", "settled", "target"} /\ cmd'.pc = "sent"
        /\ cmd'.op = cmd.op /\ cmd'.target = printer.by /\ cmd'.started = cmd.started
    BY <1>0, <2>1
  <2>3. cmd'.settled = Settled(cmd.op)
    BY <1>0, <2>1
  <2>4. cmd'.settled => Settled(cmd.op)
    BY <2>3, Zenon
  <2>5. CallTypes'
    BY <1>1, <1>2, <2>2 DEF DriverInv, CallTypes, InCommand
  <2>6. Locks'
    BY <1>1, <2>1, <2>2, CommandLock DEF InCommand
  <2>7. Commanded'
    <3>1. Settled(cmd.op) => /\ status.job = printer.job /\ pend = "none" /\ raw = <<>>
                             /\ (cmd.op = "cali" => Idle(printer.job))
      BY DEF Settled
    <3>2. ASSUME cmd.op \in {"pause", "resume", "stop"}, Settled(cmd.op),
                 printer.job = Before(cmd.op)
          PROVE  ~Known(After(cmd.op))
      BY <3>1, <3>2 DEF Known, Before, After
    <3>3. ASSUME cmd.op = "cali", Settled(cmd.op)
          PROVE  Idle(printer.job) /\ ~Known({"printing"})
      BY <3>1, <3>3 DEF Known, Idle
    <3>4. ~cmd.started
      BY <1>1 DEF DriverInv, Commanded
    <3>5. \A J : Known(J)' <=> Known(J)
      BY <1>1 DEF Known
    <3>6. Undone' => printer.job = Before(cmd.op)
      BY <1>1, <2>2 DEF Undone
    <3>7. /\ cmd'.op \in {"pause", "resume", "stop"} /\ cmd'.settled /\ Undone' =>
               ~Known(After(cmd.op))'
      <4>1. Known(After(cmd.op))' => Known(After(cmd.op))
        BY <1>1, <2>2 DEF Known, After
      <4> QED
        BY <2>2, <2>4, <3>2, <3>6, <4>1
    <3>8. cmd'.op = "cali" /\ cmd'.settled =>
               Idle(printer'.job) /\ ~Known({"printing"})' /\ ~cmd'.started
      BY <1>1, <2>2, <2>4, <3>3, <3>4, <3>5
    <3> QED
      BY <1>1, <2>2, <3>4, <3>7, <3>8 DEF Commanded
  <2> QED
    BY <1>1, <1>2, <1>3, <2>1, <2>2, <2>5, <2>6, <2>7, CommandMoves DEF HasClient, Serving
<1>4. CASE ~(HasClient /\ Allowed(cmd.op, status.job))
  <2>1. reqs' = reqs /\ readers' = readers \ {"command"} /\ cmd' = [cmd EXCEPT !.pc = "err"]
    BY <1>4 DEF PublishCommand, CommandEnds, Step
  <2>2. /\ DOMAIN cmd' = {"op", "pc", "started", "settled", "target"} /\ cmd'.pc = "err"
        /\ cmd'.op = cmd.op /\ cmd'.target = cmd.target
    BY <1>0, <2>1
  <2>3. CallTypes'
    BY <1>1, <2>2 DEF DriverInv, CallTypes
  <2>4. Locks'
    BY <1>1, <2>1, <2>2, CommandLock DEF InCommand
  <2>5. Commanded'
    BY <2>2 DEF Commanded
  <2> QED
    BY <1>1, <1>2, <2>1, <2>2, <2>3, <2>4, <2>5, CommandMoves
<1> QED
  BY <1>3, <1>4

(* The waits: an acknowledgement is a state the printer was seen in. *)
LEMMA CommandWaits ==
  ASSUME DriverInv,
         SubscribeStatus \/ LookAtStatus \/ LookAtCali \/ CaliResult \/ CommandTimesOut
  PROVE  DriverInv'
<1>0. DOMAIN cmd = {"op", "pc", "started", "settled", "target"} /\ unseen \subseteq Watchers
  BY DEF DriverInv, CallTypes, LinkTypes
<1>1. /\ UNCHANGED <<kind, purpose, life, loop, signalled, worker, pend, flush, status, shown,
                     reqs, raw, printer, overtaken, sendVars, sendPc, armed, unanswered>>
      /\ cmd.pc \in {"sent", "waiting", "result"} /\ unseen' \subseteq Watchers
  BY <1>0 DEF SubscribeStatus, LookAtStatus, LookAtCali, CaliResult, CommandTimesOut, connUnlocked,
     fixed, lockVars, linkVars, workVars, chanVars, queues, machine, notes, sendVars, Watchers
<1>2. cmd.op # "none" /\ kind = "bambu"
  BY <1>1 DEF DriverInv, CallTypes, Locks
<1>3. \A J : Known(J)' <=> Known(J)
  BY <1>1 DEF Known
<1>4. ASSUME NEW pc \in {"waiting", "result", "ok", "err"}, cmd'.pc = pc,
             DOMAIN cmd' = DOMAIN cmd, UNCHANGED <<cmd.op, cmd.target, cmd.settled>>,
             \/ readers' = readers /\ pc \in InCommand
             \/ readers' = readers \ {"command"} /\ pc \notin InCommand,
             Commanded'
      PROVE  DriverInv'
  <2>1. CallTypes'
    BY <1>1, <1>2, <1>4 DEF DriverInv, CallTypes, InCommand
  <2>2. Locks'
    BY <1>1, <1>2, <1>4, CommandLock DEF InCommand
  <2> QED
    BY <1>1, <1>4, <2>1, <2>2, CommandMoves
<1>5. CASE cmd' = cmd /\ readers' = readers /\ cmd.pc = "waiting"
  <2>1. Commanded'
    BY <1>1, <1>3, <1>5, CommandedKept DEF DriverInv
  <2> QED
    BY <1>4, <1>5, <2>1 DEF InCommand
<1>6. ASSUME NEW pc \in {"waiting", "result", "ok", "err"}, cmd' = [cmd EXCEPT !.pc = pc]
      PROVE  /\ cmd'.pc = pc /\ DOMAIN cmd' = DOMAIN cmd
             /\ UNCHANGED <<cmd.op, cmd.target, cmd.settled, cmd.started>>
             /\ (Undone' <=> Undone)
  BY <1>0, <1>1, <1>6 DEF Undone
<1>7. CASE SubscribeStatus
  <2>1. cmd.pc = "sent" /\ cmd' = [cmd EXCEPT !.pc = "waiting"] /\ readers' = readers
    BY <1>7 DEF SubscribeStatus, Step, lockVars
  <2>2. Commanded'
    BY <1>1, <1>3, <1>6, <2>1 DEF DriverInv, Commanded
  <2> QED
    BY <1>4, <1>6, <2>1, <2>2 DEF InCommand
<1>8. CASE cmd' = [cmd EXCEPT !.pc = "err"] /\ readers' = readers \ {"command"}
  <2>1. Commanded'
    BY <1>6, <1>8 DEF Commanded
  <2> QED
    BY <1>4, <1>6, <1>8, <2>1 DEF InCommand
<1>9. CASE LookAtStatus
  <2>1. /\ cmd.pc = "waiting" /\ cmd.op # "cali"
        /\ \/ cmd' = cmd /\ readers' = readers
           \/ /\ Satisfies(cmd.op, status.job) /\ cmd' = [cmd EXCEPT !.pc = "ok"]
              /\ readers' = readers \ {"command"}
    BY <1>9 DEF LookAtStatus, CommandEnds, Step
  <2>2. ASSUME Satisfies(cmd.op, status.job), cmd' = [cmd EXCEPT !.pc = "ok"]
        PROVE  Commanded'
    <3>1. cmd.op \in {"pause", "resume", "stop"}
      BY <1>2, <2>1 DEF DriverInv, CallTypes
    <3>2. Known(After(cmd.op))
      BY <2>2, <3>1 DEF Satisfies, After, Known
    <3>3. ~(cmd.settled /\ Undone)
      BY <2>1, <3>1, <3>2 DEF DriverInv, Commanded
    <3> QED
      BY <1>6, <2>1, <2>2, <3>3 DEF Commanded
  <2> QED
    BY <1>4, <1>5, <1>6, <2>1, <2>2 DEF InCommand
<1>10. CASE LookAtCali
  <2>1. cmd.pc = "waiting" /\ cmd.op = "cali"
    BY <1>10 DEF LookAtCali
  <2>2. ~(cmd.settled /\ printer.by = "screen") \/ (status.job # "printing" /\ ~cmd.started)
    BY <2>1 DEF DriverInv, Commanded, Known
  <2>3. CASE status.job = "printing"
    <3>1. cmd' = [cmd EXCEPT !.started = TRUE] /\ readers' = readers
      BY <1>10, <2>3 DEF LookAtCali
    <3>2. cmd'.pc = "waiting" /\ DOMAIN cmd' = DOMAIN cmd /\ UNCHANGED <<cmd.op, cmd.target, cmd.settled>>
      BY <1>0, <2>1, <3>1
    <3>3. Commanded'
      BY <1>1, <2>1, <2>2, <2>3, <3>2 DEF Commanded
    <3> QED
      BY <1>4, <3>1, <3>2, <3>3 DEF InCommand
  <2>4. CASE cmd' = [cmd EXCEPT !.pc = "result"] /\ readers' = readers /\ cmd.started
    <3>1. Commanded'
      BY <1>1, <1>6, <2>1, <2>2, <2>4 DEF Commanded
    <3> QED
      BY <1>4, <1>6, <2>4, <3>1 DEF InCommand
  <2> QED
    BY <1>5, <1>8, <1>10, <2>1, <2>3, <2>4 DEF LookAtCali, CommandEnds, Step
<1>11. CASE CaliResult
  <2>1. /\ cmd.pc = "result" /\ readers' = readers \ {"command"}
        /\ cmd' = [cmd EXCEPT !.pc = "ok"] \/ cmd' = [cmd EXCEPT !.pc = "err"]
    BY <1>11 DEF CaliResult, CommandEnds, Step
  <2>2. cmd.op = "cali" /\ ~(cmd.settled /\ printer.by = "screen")
    BY <2>1 DEF DriverInv, Commanded
  <2>3. CASE cmd' = [cmd EXCEPT !.pc = "ok"]
    <3>1. Commanded'
      BY <1>1, <1>6, <2>2, <2>3 DEF Commanded
    <3> QED
      BY <1>4, <1>6, <2>1, <2>3, <3>1 DEF InCommand
  <2> QED
    BY <1>8, <2>1, <2>3
<1>12. CASE CommandTimesOut
  BY <1>8, <1>12 DEF CommandTimesOut, CommandEnds, Step
<1> QED
  BY <1>7, <1>9, <1>10, <1>11, <1>12

LEMMA CommandByHttp ==
  ASSUME DriverInv, HttpCommand
  PROVE  DriverInv'
<1>0. DOMAIN cmd = {"op", "pc", "started", "settled", "target"} /\ unseen \subseteq Watchers
  BY DEF DriverInv, CallTypes, LinkTypes
<1>1. /\ UNCHANGED <<kind, purpose, life, loop, signalled, worker, pend, flush, status, unseen,
                     shown, reqs, raw, overtaken, sendVars, sendPc, armed, unanswered>>
      /\ cmd.pc = "check" /\ kind # "bambu" /\ readers' = readers \ {"command"}
      /\ cmd.op \in {"pause", "resume", "stop"}
  BY DEF HttpCommand, CommandEnds, connUnlocked, fixed, linkVars, workVars, chanVars, notes, sendVars,
         DriverInv, CallTypes, Locks
<1>2. /\ printer.by \in Sends \cup {"screen", "cali"} /\ "none" \notin Sends
      /\ cmd.op \notin Sends \cup {"cali", "screen"}
      /\ reqs \in Seq(Sends \cup Told \cup ({cmd.op} \ {"none"})) /\ Len(reqs) <= ReqCap
  BY <1>1, LinkAssumption DEF DriverInv, LinkTypes
<1>3. CASE UNCHANGED printer /\ cmd' = [cmd EXCEPT !.pc = "err"]
  <2>1. /\ DOMAIN cmd' = {"op", "pc", "started", "settled", "target"} /\ cmd'.pc = "err"
        /\ cmd'.op = cmd.op /\ cmd'.target = cmd.target
    BY <1>0, <1>3
  <2>2. CallTypes'
    BY <1>1, <2>1 DEF DriverInv, CallTypes
  <2>3. Locks'
    BY <1>1, <2>1, CommandLock DEF InCommand
  <2>4. Commanded'
    BY <2>1 DEF Commanded
  <2> QED
    BY <1>0, <1>1, <1>3, <2>1, <2>2, <2>3, <2>4, CommandMoves
<1>4. ASSUME Allowed(cmd.op, printer.job), Obeys(cmd.op), NEW outcome \in {"ok", "err"},
             cmd' = [cmd EXCEPT !.pc = outcome, !.target = printer.by]
      PROVE  DriverInv'
  <2>1. /\ DOMAIN cmd' = {"op", "pc", "started", "settled", "target"} /\ cmd'.pc = outcome
        /\ cmd'.op = cmd.op /\ cmd'.target = printer.by
    BY <1>0, <1>4
  <2>2. /\ DOMAIN printer' = DOMAIN printer /\ printer'.job \in Jobs
        /\ printer'.by = printer.by /\ printer'.by \in Sends \cup {"screen", "cali"}
    BY <1>1, <1>2, <1>4, ObeysShape DEF DriverInv, Starting
  <2>3. printer'.job # Before(cmd.op)
    <3>0. DOMAIN printer = {"up", "job", "by", "owed", "watching"} /\ printer.job \in Jobs
      BY DEF DriverInv, LinkTypes
    <3>1. ASSUME NEW j, Took(j, printer.by) PROVE printer'.job = j
      BY <3>0, <3>1 DEF Took
    <3>2. CASE cmd.op = "pause"
      <4>1. printer'.job = "paused"
        BY <1>2, <1>4, <3>1, <3>2 DEF Allowed, Obeys
      <4> QED
        BY <3>2, <4>1 DEF Before
    <3>3. CASE cmd.op = "resume"
      <4>1. printer'.job = "printing"
        BY <1>2, <1>4, <3>1, <3>3 DEF Allowed, Obeys
      <4> QED
        BY <3>3, <4>1 DEF Before
    <3>4. CASE cmd.op = "stop"
      <4>1. printer'.job = "failed" \/ (printer' = printer /\ Idle(printer.job))
        BY <1>2, <1>4, <3>1, <3>4 DEF Obeys
      <4> QED
        BY <3>4, <4>1 DEF Before, Idle
    <3> QED
      BY <1>1, <3>2, <3>3, <3>4
  <2>4. CallTypes'
    BY <1>1, <1>2, <2>1 DEF DriverInv, CallTypes
  <2>5. Locks'
    BY <1>1, <2>1, CommandLock DEF InCommand
  <2>6. Commanded'
    BY <1>1, <2>1, <2>3 DEF Commanded, Undone
  <2>7. LinkSide'
    BY <1>0, <1>1, <1>2, <2>1, <2>2, LinkKept
  <2>8. Tokens'
    BY <1>1 DEF DriverInv, Tokens
  <2>9. Starts' /\ CancelIsExact'
    <3>1. QueueMove
      BY <1>1, QueueKept DEF DriverInv, Starts
    <3>2. \A s \in Sends : Started(s) => Started(s)'
      BY <1>1, <3>1 DEF Started, QueueMove
    <3>3. Starts'
      BY <1>1, <2>1, <2>2, <3>1, <3>2 DEF DriverInv, Starts, QueueMove
    <3>4. CancelIsExact'
      BY <1>1, <2>2 DEF DriverInv, CancelIsExact
    <3> QED
      BY <3>3, <3>4
  <2> QED
    BY <2>4, <2>5, <2>6, <2>7, <2>8, <2>9, Together DEF CallSide
<1> QED
  BY <1>3, <1>4 DEF HttpCommand, CommandEnds, Step

-----------------------------------------------------------------------------
LEMMA DriverInvStarts == DriverInit => DriverInv
<1> SUFFICES ASSUME DriverInit PROVE DriverInv
  OBVIOUS
<1>1. /\ kind \in Kinds /\ purpose \in Purposes /\ life = "new" /\ readers = {} /\ loop = "none"
      /\ signalled = FALSE /\ worker = "none" /\ pend = "none" /\ flush = "idle"
      /\ status = [conn |-> "Disconnected", job |-> "idle"] /\ unseen = {} /\ shown = status
      /\ reqs = <<>> /\ raw = <<>> /\ overtaken = FALSE
      /\ sendPc = [s \in Sends |-> "idle"] /\ armed = "none" /\ unanswered = {}
      /\ cmd = [op |-> "none", pc |-> "idle", started |-> FALSE, settled |-> TRUE, target |-> "none"]
  BY DEF DriverInit, ConnInit, NoCommand
<1>2. /\ DOMAIN printer = {"up", "job", "by", "owed", "watching"}
      /\ printer.job \in {"idle", "printing"} /\ printer.by = "screen"
  BY DEF DriverInit, ConnInit
<1>3. ReqCap \in Nat /\ RawCap \in Nat /\ "none" \notin Sends /\ "screen" \notin Sends
  BY LinkAssumption
<1>4. LinkTypes
  <2>1. reqs \in Seq(Sends \cup Told \cup ({cmd.op} \ {"none"})) /\ Len(reqs) <= ReqCap
    BY <1>1, <1>3
  <2>2. raw \in Seq(Jobs) /\ Len(raw) <= RawCap
    BY <1>1, <1>3
  <2>3. status \in [conn : Connections, job : Jobs] /\ DOMAIN status = {"conn", "job"}
    BY <1>1 DEF Connections, Jobs
  <2> QED
    BY <1>1, <1>2, <2>1, <2>2, <2>3 DEF LinkTypes, Lives, Loops, Jobs
<1>5. CallTypes /\ Tokens
  BY <1>1, <1>3 DEF CallTypes, Tokens, Uploading
<1>6. TaskShape /\ NoFalseConnected
  BY <1>1 DEF TaskShape, NoFalseConnected, NoTaskLeft, Begins, Closes, Past
<1>7. Locks
  BY <1>1 DEF Locks, Reading, InCommand
<1>8. Starts /\ CancelIsExact
  BY <1>1, <1>2, <1>3 DEF Starts, Started, Queued, OnlyOnce, CancelIsExact
<1>9. Commanded
  BY <1>1 DEF Commanded
<1> QED
  BY <1>4, <1>5, <1>6, <1>7, <1>8, <1>9 DEF DriverInv

LEMMA DriverInvKept == DriverInv /\ [DriverNext]_driverVars => DriverInv'
<1> SUFFICES ASSUME DriverInv, [DriverNext]_driverVars PROVE DriverInv'
  OBVIOUS
<1>1. CASE UNCHANGED driverVars
  <2>1. UNCHANGED <<sendVars, cmd, kind, purpose, life, readers, loop, signalled, worker, pend, flush,
                    status, unseen, shown, reqs, raw, printer, overtaken>>
    BY <1>1 DEF driverVars, connVars, fixed, lockVars, linkVars, workVars, chanVars, queues, machine,
       notes
  <2>2. CallSide'
    BY <2>1, CallSideKept
  <2>3. Locks'
    BY <2>1, LocksKept DEF DriverInv
  <2>4. LinkTypes' /\ TaskShape' /\ NoFalseConnected'
    BY <2>1 DEF DriverInv, LinkTypes, TaskShape, NoTaskLeft, NoFalseConnected
  <2> QED
    BY <2>2, <2>3, <2>4, Together DEF LinkSide
<1> QED
  BY <1>1, ConnectionKeeps, SendsKeep, CancelAsked, CommandBegins, CommandPublishes, CommandWaits,
     CommandByHttp DEF DriverNext, CommandSteps

LEMMA FlagKept == DriverSpec => [](fired \in BOOLEAN)
<1>1. DriverInit => fired \in BOOLEAN
  BY DEF DriverInit
<1>2. fired \in BOOLEAN /\ [DriverNext]_driverVars => (fired \in BOOLEAN)'
  <2> SUFFICES ASSUME fired \in BOOLEAN, [DriverNext]_driverVars PROVE fired' = fired \/ fired' \in BOOLEAN
    BY Zenon
  <2> USE DEF sendVars, Finish
  <2>1. CASE ConnNext /\ UNCHANGED <<sendVars, cmd>>
    BY <2>1
  <2>2. ASSUME NEW s \in Sends, IssueSend(s) \/ SendSteps(s)
        PROVE  fired' = fired \/ fired' \in BOOLEAN
    BY <2>2 DEF IssueSend, SendSteps, PayloadFails, Arm, LockForSend, PushK, Upload, PublishStart,
       StartScript, Answered, SendFails, CancelWins
  <2>3. CASE Cancel
    BY <2>3 DEF Cancel
  <2>4. ASSUME NEW op \in Commands, IssueCommand(op) PROVE fired' = fired
    BY <2>4 DEF IssueCommand
  <2>5. CASE CommandSteps
    BY <2>5 DEF CommandSteps, LockForCommand, PublishCommand, SubscribeStatus, LookAtStatus,
       LookAtCali, CaliResult, CommandTimesOut, HttpCommand
  <2>6. CASE UNCHANGED driverVars
    BY <2>6 DEF driverVars
  <2> QED
    BY <2>1, <2>2, <2>3, <2>4, <2>5, <2>6 DEF DriverNext
<1> QED
  BY <1>1, <1>2, PTL DEF DriverSpec

LEMMA DriverInvHolds == DriverSpec => []DriverInv
  BY DriverInvStarts, DriverInvKept, PTL DEF DriverSpec

(* However a driver's tasks, its sends and its commands meet: two sends never  *)
(* upload at a time, and one that is reported as cancelled has not started a   *)
(* print, unless it says the printer had the request already                   *)
(* (driver/commands.rs, driver_send_plate and driver_send_cancel).             *)
THEOREM SendsAreExact == DriverSpec => []SendIsExact
<1>1. DriverInv /\ fired \in BOOLEAN => SendIsExact
  <2> SUFFICES ASSUME DriverInv, fired \in BOOLEAN PROVE SendIsExact
    OBVIOUS
  <2>1. DriverTypeOK
    <3>1. readers \subseteq Sends \cup {"command"}
      BY DEF DriverInv, Locks
    <3>2. /\ status \in [conn : Connections, job : Jobs] /\ shown \in [conn : Connections, job : Jobs]
          /\ unseen \subseteq Watchers /\ loop \in Loops
          /\ worker \in {"none", "run", "gone"} /\ flush \in Connections \cup {"idle"}
          /\ pend \in Jobs \cup {"none"} /\ Len(reqs) <= ReqCap /\ Len(raw) <= RawCap
          /\ printer.job \in Jobs
      BY DEF DriverInv, LinkTypes
    <3>3. /\ armed \in Sends \cup {"none"}
          /\ \A s \in Sends : sendPc[s] \in {"idle", "payload"} \cup Uploading \cup Outcomes
          /\ cmd.pc \in {"idle", "lock", "ok", "err"} \cup InCommand
      BY DEF DriverInv, CallTypes
    <3> QED
      BY <3>1, <3>2, <3>3 DEF DriverTypeOK, Loops, InCommand
  <2>2. OneUpload
    BY DEF DriverInv, Tokens, OneUpload
  <2> QED
    BY <2>1, <2>2 DEF SendIsExact, DriverInv
<1> QED
  BY <1>1, DriverInvHolds, FlagKept, PTL

(* The driver leaves no task behind its disconnect, does not claim a          *)
(* connection it has lost, reports a command as done only when the printer    *)
(* has done it, and takes no other job's end for its calibration's            *)
(* (driver/bambu/connection.rs, status.rs, driver/commands.rs).               *)
THEOREM DriversAreTrue == DriverSpec => []DriverIsTrue
<1>1. DriverInv => DriverIsTrue
  <2> SUFFICES ASSUME DriverInv PROVE DriverIsTrue
    OBVIOUS
  <2>1. NoTaskLeft /\ NoFalseConnected
    BY DEF DriverInv, TaskShape
  <2>2. CommandOkIsTrue
    <3> SUFFICES ASSUME cmd.pc = "ok", cmd.op # "cali", cmd.settled, printer.by = cmd.target
                 PROVE  printer.job # (CASE cmd.op = "pause" -> "printing"
                                         [] cmd.op = "resume" -> "paused"
                                         [] cmd.op = "stop" -> "printing")
      BY DEF CommandOkIsTrue
    <3>1. cmd.op \in {"pause", "resume", "stop"}
      BY DEF DriverInv, CallTypes
    <3>2. printer.job # Before(cmd.op)
      BY <3>1 DEF DriverInv, Commanded, Undone
    <3> QED
      BY <3>1, <3>2 DEF Before
  <2>3. CaliEndIsOwn
    BY DEF DriverInv, Commanded, CaliEndIsOwn
  <2> QED
    BY <2>1, <2>2, <2>3 DEF DriverIsTrue
<1> QED
  BY <1>1, DriverInvHolds, PTL
=============================================================================
