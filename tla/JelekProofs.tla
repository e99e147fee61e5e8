----------------------------- MODULE JelekProofs ----------------------------
(***************************************************************************)
(* Proofs about the five programs of Jelek, for every number of signals in *)
(* sigaction_multiple.c.  The inductive invariant says first what holds for *)
(* signals in all of them, and then, for each program, which labels its two *)
(* processes can be at together and what has been sent and caught by then.  *)
(***************************************************************************)
EXTENDS Jelek, SequenceTheorems, TLAPS

\* What a signal is sent by: the kind of call, or the number of the round.
Senders == {"kill", "sigqueue", "timer"} \cup 0..Copies

ParentLabels ==
  {"timer_settime", "pause_timer", "paused_timer", "fork", "as child", "kill", "sigsuspend",
   "suspended", "pause_usr1", "paused_usr1", "unblock", "pause_kill", "paused_kill",
   "pause_queue", "paused_queue", "wait", "over"}
ChildLabels ==
  {"none", "pause", "paused", "kill", "sigqueue", "kill_usr1", "kill_term", "for", "kill_rtmin", "exit"}

Types ==
  /\ program \in Programs /\ DOMAIN pc = Processes
  /\ pc["parent"] \in ParentLabels /\ pc["child"] \in ChildLabels
  /\ pending \in [Signals -> Seq(Senders)] /\ caught \in [Signals -> Seq(Senders)]
  /\ handlers \in Seq([sig : Signals, by : Senders])
  /\ mask \subseteq Signals /\ i \in 0..Copies /\ timer \in {"off", "armed", "deleted"}

Sent(s) == pending[s] # <<>> \/ caught[s] # <<>>
Only(s) == \A k \in DOMAIN handlers : handlers[k].sig = s

-----------------------------------------------------------------------------
(* What holds for signals in all programs *)

\* A normal signal is pending once at most.
NormalOnce == \A s \in {"SIGTERM", "SIGUSR1"} : Len(pending[s]) <= 1

\* A signal is blocked while its handler runs.
NoReentry == \A j, k \in DOMAIN handlers : handlers[j].sig = handlers[k].sig => j = k

\* A running handler has caught its signal, and its process is still there.
HandlersHaveCaught ==
  /\ \A k \in DOMAIN handlers : caught[handlers[k].sig] # <<>>
  /\ Ended(receiver) => handlers = <<>>

\* Each program sends only its own signals.
NotUsed(s) == pending[s] = <<>> /\ \A k \in DOMAIN handlers : handlers[k].sig # s
OwnSignals ==
  /\ ~Is("sigaction_multiple") => NotUsed("SIGRTMIN")
  /\ Is("signal") \/ Is("sigaction_value") => NotUsed("SIGUSR1")
  /\ ~Is("sigaction_value") => timer = "off"

Common == Types /\ NormalOnce /\ NoReentry /\ HandlersHaveCaught /\ OwnSignals

-----------------------------------------------------------------------------
(* Where the two processes can be, what is sent, what is caught: program by *)
(* program                                                                  *)

\* Nobody has forked yet, or the fork has failed.
BeforeFork == {"timer_settime", "pause_timer", "paused_timer", "fork", "as child"}

\* The parent has waited for its child.
Waited == pc["parent"] = "over" => pc["child"] = "exit"

\* There is no child before the fork.
NoChildYet == pc["parent"] \in BeforeFork => pc["child"] = "none"

InSignal ==
  /\ pc["parent"] \in {"fork", "as child", "kill", "wait", "over"}
  /\ pc["child"] \in {"none", "pause", "paused", "exit"}
  /\ mask = {}

InSigaction ==
  /\ pc["parent"] \in {"fork", "as child", "sigsuspend", "suspended", "wait", "over"}
  /\ pc["child"] \in {"none", "kill_usr1", "kill_term", "exit"}
  /\ mask = IF pc["parent"] = "suspended" THEN Signals \ {"SIGTERM"} ELSE {}
  /\ pc["parent"] = "suspended" => Only("SIGTERM")
  /\ Sent("SIGTERM") => pc["child"] = "exit"
  /\ pending["SIGTERM"] = <<>> \/ caught["SIGTERM"] = <<>>
  /\ pc["child"] \in {"kill_term", "exit"} => Sent("SIGUSR1")
  /\ pc["parent"] \in {"wait", "over"} => caught["SIGTERM"] # <<>>
  /\ pc["parent"] \in {"wait", "over"} => Only("SIGUSR1")
  /\ pc["parent"] = "over" => caught["SIGUSR1"] # <<>>

InSigprocmask ==
  /\ pc["parent"] \in {"fork", "as child", "pause_usr1", "paused_usr1", "unblock", "wait", "over"}
  /\ pc["child"] \in {"none", "kill_term", "kill_usr1", "exit"}
  /\ mask = IF pc["parent"] \in {"wait", "over"} THEN {} ELSE {"SIGTERM"}
  /\ pc["parent"] \notin {"wait", "over"} => caught["SIGTERM"] = <<>> /\ Only("SIGUSR1")
  /\ pc["parent"] \in {"unblock", "wait", "over"} => caught["SIGUSR1"] # <<>>
  /\ pc["child"] \in {"kill_usr1", "exit"} => Sent("SIGTERM")
  /\ pc["parent"] = "over" => caught["SIGTERM"] # <<>>

\* How often sigaction_multiple.c has sent each signal
SentUsr1 == IF pc["child"] = "kill_usr1" THEN i - 1 ELSE i
SentRtmin == IF pc["child"] \in {"kill_usr1", "kill_rtmin"} THEN i - 1 ELSE i

\* How often a signal has been caught, and how often it is pending
NCaught(s) == Len(caught[s])
NPending(s) == Len(pending[s])

InSigactionMultiple ==
  /\ pc["parent"] \in {"fork", "as child", "wait", "over"}
  /\ pc["child"] \in {"none", "for", "kill_usr1", "kill_rtmin", "exit"}
  /\ mask = {}
  /\ pc["child"] = "none" => i = 0
  /\ pc["child"] \in {"kill_usr1", "kill_rtmin"} => i >= 1
  /\ pc["child"] = "exit" => i = Copies
  /\ NCaught("SIGRTMIN") + NPending("SIGRTMIN") = SentRtmin
  /\ \A k \in DOMAIN caught["SIGRTMIN"] : caught["SIGRTMIN"][k] = k
  /\ \A k \in DOMAIN pending["SIGRTMIN"] :
       pending["SIGRTMIN"][k] = NCaught("SIGRTMIN") + k
  /\ NCaught("SIGUSR1") + NPending("SIGUSR1") <= SentUsr1
  /\ SentUsr1 >= 1 => Sent("SIGUSR1")
  /\ pc["parent"] = "over" => pending["SIGRTMIN"] = <<>> /\ pending["SIGUSR1"] = <<>>

\* What the SIGTERM of sigaction_value.c that was handled, or is pending, came from
Caught(by) == \E k \in DOMAIN caught["SIGTERM"] : caught["SIGTERM"][k] = by
Pending(by) == pending["SIGTERM"] = <<by>>

InSigactionValue ==
  /\ pc["parent"] \in BeforeFork \cup
       {"pause_kill", "paused_kill", "pause_queue", "paused_queue", "wait", "over"}
  /\ pc["child"] \in {"none", "kill", "sigqueue", "exit"}
  /\ mask = {}
  /\ pc["parent"] \in BeforeFork =>
       /\ ~Caught("kill") /\ ~Caught("sigqueue")
       /\ pending["SIGTERM"] = <<>> \/ Pending("timer")
       /\ \A k \in DOMAIN handlers : handlers[k].by = "timer"
  /\ pc["parent"] \notin {"timer_settime", "pause_timer", "paused_timer"} => timer = "deleted"
  /\ pc["parent"] \notin BeforeFork =>
       pending["SIGTERM"] = <<>> \/ Pending("kill") \/ Pending("sigqueue")
  /\ Pending("kill") => ~Caught("kill")
  /\ Pending("sigqueue") => Caught("kill")
  /\ Pending("sigqueue") \/ Caught("sigqueue") => pc["child"] = "exit"
  /\ pc["child"] = "kill" => pending["SIGTERM"] = <<>> /\ ~Caught("kill")
  /\ pc["child"] \in {"sigqueue", "exit"} => Pending("kill") \/ Caught("kill")
  /\ pc["parent"] \in {"pause_kill", "paused_kill"} /\ handlers # <<>> => Caught("kill")
  /\ pc["parent"] \in {"pause_queue", "paused_queue", "wait", "over"} => Caught("kill")
  /\ pc["parent"] \in {"pause_queue", "paused_queue"} /\ handlers # <<>> => Caught("sigqueue")
  /\ pc["parent"] \in {"wait", "over"} => Caught("sigqueue")

IInv ==
  /\ Common /\ Waited /\ NoChildYet
  /\ Is("signal") => InSignal
  /\ Is("sigaction") => InSigaction
  /\ Is("sigprocmask") => InSigprocmask
  /\ Is("sigaction_multiple") => InSigactionMultiple
  /\ Is("sigaction_value") => InSigactionValue


-----------------------------------------------------------------------------
(* What the operations do *)

LEMMA Moves ==
  ASSUME Types, NEW p \in Processes, NEW from, NEW to, Step(p, from, to)
  PROVE  /\ pc[p] = from /\ pc'[p] = to /\ DOMAIN pc' = Processes
         /\ \A q \in Processes : q # p => pc'[q] = pc[q]
         /\ p = receiver => handlers = <<>>
BY DEF Types, Step, Ready

LEMMA ForkMoves ==
  ASSUME Types, NEW parent, NEW child, Fork(parent, child)
  PROVE  /\ pc["parent"] = "fork" /\ DOMAIN pc' = Processes
         /\ \/ pc'["parent"] = parent /\ pc'["child"] = child
            \/ pc'["parent"] = "as child" /\ pc'["child"] = pc["child"]
         /\ receiver = "parent" => handlers = <<>>
         /\ UNCHANGED <<pending, mask, handlers, caught, i, timer>>
BY DEF Types, Fork, Ready, Processes

ParentMoved(from, to) == pc["parent"] = from /\ pc'["parent"] = to /\ pc'["child"] = pc["child"]
ChildMoved(from, to) == pc["child"] = from /\ pc'["child"] = to /\ pc'["parent"] = pc["parent"]
SignalsKept == UNCHANGED <<pending, handlers, caught>>

\* The receiver handles what can be handled before it goes on.
Idle == handlers = <<>> /\ \A s \in Signals : s \notin mask => pending[s] = <<>>

LEMMA ReadyIdle ==
  ASSUME NEW p, Ready(p), p = receiver PROVE Idle
BY DEF Ready, Idle, Deliverable, Runs

LEMMA ParentMoves ==
  ASSUME Types, NEW from, NEW to, Step("parent", from, to)
  PROVE  ParentMoved(from, to) /\ (receiver = "parent" => Idle)
BY ReadyIdle DEF Types, Step, Processes, ParentMoved

LEMMA ChildMoves ==
  ASSUME Types, NEW from, NEW to, Step("child", from, to) PROVE ChildMoved(from, to)
BY DEF Types, Step, Processes, ChildMoved

LEMMA Forks ==
  ASSUME Types, NEW parent, NEW child, Fork(parent, child)
  PROVE  /\ \/ ParentMoved("fork", "as child")
            \/ pc["parent"] = "fork" /\ pc'["parent"] = parent /\ pc'["child"] = child
         /\ SignalsKept /\ UNCHANGED <<mask, i, timer>> /\ (receiver = "parent" => Idle)
BY ReadyIdle DEF Types, Fork, Processes, ParentMoved, SignalsKept

LEMMA Waits ==
  ASSUME Types, Wait
  PROVE  /\ ParentMoved("wait", "over") /\ pc["child"] = "exit"
         /\ SignalsKept /\ UNCHANGED <<mask, i, timer>> /\ (receiver = "parent" => Idle)
BY ParentMoves DEF Wait, Goto, SignalsKept

LEMMA HandlersTyped ==
  ASSUME Types
  PROVE  /\ DOMAIN handlers = 1..Len(handlers) /\ Len(handlers) \in Nat
         /\ \A k \in DOMAIN handlers : handlers[k].sig \in Signals /\ handlers[k].by \in Senders
<1> DEFINE hs == [sig : Signals, by : Senders]
<1>1. handlers \in Seq(hs)
  BY DEF Types
<1>2. /\ Len(handlers) \in Nat /\ DOMAIN handlers = 1..Len(handlers)
      /\ handlers \in [1..Len(handlers) -> hs]
  BY <1>1, LenProperties
<1>3. \A k \in DOMAIN handlers : handlers[k] \in hs
  BY <1>2
<1> QED BY <1>2, <1>3

\* A signal that is sent becomes pending, or merges with one that is, or its
\* receiver has gone.
LEMMA Sends ==
  ASSUME Types, NEW p \in Processes, NEW from, NEW to, NEW s \in Signals, NEW by \in Senders,
         Kill(p, from, to, s, by)
  PROVE  /\ Step(p, from, to)
         /\ UNCHANGED <<mask, handlers, caught, i, timer>>
         /\ \A t \in Signals : t # s => pending'[t] = pending[t]
         /\ pending' \in [Signals -> Seq(Senders)]
         /\ \/ /\ s = "SIGRTMIN" \/ pending[s] = <<>>
               /\ pending'[s] = Append(pending[s], by)
            \/ /\ Ended(receiver) \/ (s # "SIGRTMIN" /\ pending[s] # <<>>)
               /\ pending'[s] = pending[s]
<1>1. \/ (s = "SIGRTMIN" \/ pending[s] = <<>>) /\ pending' = [pending EXCEPT ![s] = Append(pending[s], by)]
      \/ (Ended(receiver) \/ (s # "SIGRTMIN" /\ pending[s] # <<>>)) /\ pending' = pending
  BY DEF Kill, Send
<1>2. pending \in [Signals -> Seq(Senders)] /\ pending[s] \in Seq(Senders)
  BY DEF Types
<1>3. Append(pending[s], by) \in Seq(Senders)
  BY <1>2
<1>4. pending' \in [Signals -> Seq(Senders)]
  BY <1>1, <1>2, <1>3
<1> QED BY <1>1, <1>2, <1>4 DEF Kill

LEMMA Appended ==
  ASSUME NEW S, NEW s \in Seq(S), NEW e \in S
  PROVE  /\ Append(s, e) \in Seq(S) /\ Append(s, e) # <<>> /\ Len(Append(s, e)) = Len(s) + 1
         /\ DOMAIN Append(s, e) = 1..(Len(s) + 1) /\ DOMAIN s = 1..Len(s) /\ Len(s) \in Nat
         /\ \A k \in DOMAIN s : Append(s, e)[k] = s[k]
         /\ Append(s, e)[Len(s) + 1] = e
BY AppendProperties, LenProperties, EmptySeq

LEMMA Beheaded ==
  ASSUME NEW S, NEW s \in Seq(S), s # <<>>
  PROVE  /\ Tail(s) \in Seq(S) /\ Head(s) \in S /\ Head(s) = s[1]
         /\ Len(Tail(s)) = Len(s) - 1 /\ Len(s) \in Nat \ {0}
         /\ DOMAIN Tail(s) = 1..(Len(s) - 1) /\ DOMAIN s = 1..Len(s)
         /\ \A k \in DOMAIN Tail(s) : Tail(s)[k] = s[k + 1]
BY HeadTailProperties, LenProperties, EmptySeq

LEMMA OnlyOne ==
  ASSUME NEW S, NEW s \in Seq(S), s # <<>>, Len(s) <= 1
  PROVE  Tail(s) = <<>>
<1>1. Len(Tail(s)) = Len(s) - 1 /\ Len(s) \in Nat \ {0} /\ Tail(s) \in Seq(S)
  BY Beheaded
<1>2. Len(Tail(s)) = 0
  BY <1>1
<1> QED BY <1>1, <1>2, EmptySeq

\* The oldest pending signal is caught by one more handler.
Delivered(s) ==
  /\ pending[s] # <<>> /\ s \notin mask /\ ~Runs(s) /\ ~Ended(receiver)
  /\ Head(pending[s]) \in Senders
  /\ handlers' = Append(handlers, [sig |-> s, by |-> Head(pending[s])])
  /\ pending'[s] = Tail(pending[s]) /\ caught'[s] = Append(caught[s], Head(pending[s]))
  /\ \A t \in Signals : t # s => pending'[t] = pending[t] /\ caught'[t] = caught[t]
  /\ handlers' \in Seq([sig : Signals, by : Senders])
  /\ pending' \in [Signals -> Seq(Senders)]
  /\ caught' \in [Signals -> Seq(Senders)]
  /\ \A k \in DOMAIN handlers' :
       \/ k \in DOMAIN handlers /\ handlers'[k] = handlers[k]
       \/ handlers'[k].sig = s /\ handlers'[k].by = Head(pending[s])
  /\ caught'[s] # <<>>
  /\ UNCHANGED <<pc, mask, i, timer>>

LEMMA Delivers == ASSUME Types, NEW s \in Signals, Deliver(s) PROVE Delivered(s)
<1> DEFINE by == Head(pending[s])
           hs == [sig : Signals, by : Senders]
<1>1. /\ pending \in [Signals -> Seq(Senders)] /\ caught \in [Signals -> Seq(Senders)]
      /\ pending[s] \in Seq(Senders) /\ caught[s] \in Seq(Senders)
      /\ handlers \in Seq(hs)
  BY DEF Types
<1>2. pending[s] # <<>> /\ s \notin mask /\ ~Runs(s) /\ ~Ended(receiver)
  BY DEF Deliver, Deliverable
<1>3. Tail(pending[s]) \in Seq(Senders) /\ by \in Senders
  BY <1>1, <1>2, Beheaded
<1>4. Append(caught[s], by) \in Seq(Senders) /\ Append(caught[s], by) # <<>>
  BY <1>1, <1>3, Appended
<1>5. handlers' = Append(handlers, [sig |-> s, by |-> by]) /\ [sig |-> s, by |-> by] \in hs
  BY <1>3 DEF Deliver
<1>6. /\ handlers' \in Seq(hs) /\ DOMAIN handlers' = 1..(Len(handlers) + 1)
      /\ DOMAIN handlers = 1..Len(handlers) /\ Len(handlers) \in Nat
      /\ \A k \in DOMAIN handlers : handlers'[k] = handlers[k]
      /\ handlers'[Len(handlers) + 1] = [sig |-> s, by |-> by]
  BY <1>1, <1>5, Appended
<1>7. \A k \in DOMAIN handlers' :
        \/ k \in DOMAIN handlers /\ handlers'[k] = handlers[k]
        \/ handlers'[k].sig = s /\ handlers'[k].by = by
  BY <1>6
<1>8. /\ pending' = [pending EXCEPT ![s] = Tail(pending[s])]
      /\ caught' = [caught EXCEPT ![s] = Append(caught[s], by)]
      /\ UNCHANGED <<pc, mask, i, timer>>
  BY DEF Deliver
<1>9. pending' \in [Signals -> Seq(Senders)] /\ caught' \in [Signals -> Seq(Senders)]
  BY <1>1, <1>3, <1>4, <1>8
<1> QED BY <1>1, <1>2, <1>3, <1>4, <1>5, <1>6, <1>7, <1>8, <1>9 DEF Delivered

LEMMA FrontOf ==
  ASSUME NEW S, NEW s \in Seq(S), s # <<>>
  PROVE  /\ Front(s) \in Seq(S) /\ Len(Front(s)) = Len(s) - 1
         /\ \A k \in DOMAIN Front(s) : k \in DOMAIN s /\ Front(s)[k] = s[k]
         /\ Len(s) \in DOMAIN s
<1>1. Len(s) \in Nat /\ Len(s) >= 1 /\ DOMAIN s = 1..Len(s) /\ \A k \in 1..Len(s) : s[k] \in S
  BY EmptySeq, LenProperties
<1>2. Len(s) - 1 \in Int /\ 1 \in Int /\ \A k \in 1..(Len(s) - 1) : s[k] \in S
  BY <1>1
<1>3. /\ SubSeq(s, 1, Len(s) - 1) \in Seq(S)
      /\ Len(SubSeq(s, 1, Len(s) - 1)) = Len(s) - 1
      /\ \A k \in 1..(Len(s) - 1) : SubSeq(s, 1, Len(s) - 1)[k] = s[k]
  <2>1. /\ SubSeq(s, 1, Len(s) - 1) \in Seq(S)
        /\ Len(SubSeq(s, 1, Len(s) - 1)) = IF 1 <= Len(s) - 1 THEN Len(s) - 1 - 1 + 1 ELSE 0
        /\ \A k \in 1..(Len(s) - 1 - 1 + 1) : SubSeq(s, 1, Len(s) - 1)[k] = s[1 + k - 1]
    BY <1>2, SubSeqProperties
  <2> QED BY <1>1, <2>1
<1>4. DOMAIN SubSeq(s, 1, Len(s) - 1) = 1..(Len(s) - 1)
  BY <1>3, LenProperties
<1> QED BY <1>1, <1>3, <1>4 DEF Front

\* A handler returns: another one goes on, or the process does, which may end
\* its pause(), its sigsuspend() or its wait().
Returned ==
  /\ handlers # <<>> /\ handlers' \in Seq([sig : Signals, by : Senders])
  /\ Len(handlers') = Len(handlers) - 1
  /\ \A k \in DOMAIN handlers' : k \in DOMAIN handlers /\ handlers'[k] = handlers[k]
  /\ Len(handlers) \in DOMAIN handlers
  /\ timer' = IF Is("sigaction_value") /\ handlers[Len(handlers)].by = "timer"
                THEN "deleted" ELSE timer
  /\ UNCHANGED <<pending, caught, i>>
  /\ DOMAIN pc' = Processes /\ \A q \in Processes : q # receiver => pc'[q] = pc[q]
  /\ \/ pc'[receiver] = pc[receiver] /\ mask' = mask
     \/ /\ handlers' = <<>> /\ pc[receiver] \in DOMAIN After
        /\ pc'[receiver] = After[pc[receiver]]
        /\ mask' = IF pc[receiver] = "suspended" THEN {} ELSE mask
     \/ /\ handlers' = <<>> /\ pc[receiver] = "wait" /\ ~Restarts
        /\ pc'[receiver] = "over" /\ mask' = mask

LEMMA Returns == ASSUME Types, EndHandler PROVE Returned
<1>1. handlers \in Seq([sig : Signals, by : Senders]) /\ handlers # <<>>
  BY DEF Types, EndHandler
<1>2. handlers' = Front(handlers)
  BY DEF EndHandler
<1>3. /\ handlers' \in Seq([sig : Signals, by : Senders])
      /\ Len(handlers') = Len(handlers) - 1
      /\ \A k \in DOMAIN handlers' : k \in DOMAIN handlers /\ handlers'[k] = handlers[k]
      /\ Len(handlers) \in DOMAIN handlers
  BY <1>1, <1>2, FrontOf
<1>4. Len(handlers) = 1 => handlers' = <<>>
  BY <1>1, <1>3, EmptySeq
<1>5. DOMAIN pc = Processes /\ receiver \in Processes
  BY DEF Types, receiver, Processes
<1>6. /\ DOMAIN pc' = Processes /\ \A q \in Processes : q # receiver => pc'[q] = pc[q]
      /\ \/ pc'[receiver] = pc[receiver] /\ mask' = mask
         \/ /\ handlers' = <<>> /\ pc[receiver] \in DOMAIN After
            /\ pc'[receiver] = After[pc[receiver]]
            /\ mask' = IF pc[receiver] = "suspended" THEN {} ELSE mask
         \/ /\ handlers' = <<>> /\ pc[receiver] = "wait" /\ ~Restarts
            /\ pc'[receiver] = "over" /\ mask' = mask
  <2>1. CASE Len(handlers) = 1 /\ Waiting
    BY <1>4, <1>5, <2>1 DEF EndHandler, Waiting
  <2>2. CASE ~(Len(handlers) = 1 /\ Waiting)
    BY <1>4, <1>5, <2>2 DEF EndHandler
  <2> QED BY <2>1, <2>2
<1> QED
  BY <1>1, <1>3, <1>6 DEF EndHandler, Last, Returned

\* What comes after a call that a handler ends
LEMMA ComesAfter ==
  /\ DOMAIN After = {"paused", "paused_usr1", "paused_timer", "paused_kill", "paused_queue", "suspended"}
  /\ After["paused"] = "exit" /\ After["paused_usr1"] = "unblock" /\ After["paused_timer"] = "fork"
  /\ After["paused_kill"] = "pause_queue" /\ After["paused_queue"] = "wait"
  /\ After["suspended"] = "wait"
BY DEF After

-----------------------------------------------------------------------------
(* What is common to the programs *)

\* A step of a program is one of the parent or of the child, and the only thing
\* it does to signals is to send one.
Sending(s, by) ==
  /\ s = "SIGRTMIN" \/ pending[s] = <<>>
  /\ pending' = [pending EXCEPT ![s] = Append(pending[s], by)]
  /\ s = "SIGRTMIN" => Is("sigaction_multiple")
  /\ s = "SIGUSR1" => Is("sigaction") \/ Is("sigprocmask") \/ Is("sigaction_multiple")

Stepped ==
  /\ DOMAIN pc' = Processes /\ pc'["parent"] \in ParentLabels /\ pc'["child"] \in ChildLabels
  /\ UNCHANGED <<handlers, caught>>
  /\ i' \in 0..Copies /\ mask' \subseteq Signals /\ timer' \in {"off", "armed", "deleted"}
  /\ ~Is("sigaction_value") => timer' = timer
  /\ pc'[receiver] \in {"exit", "over"} => Ended(receiver) \/ handlers = <<>>
  /\ pending' = pending \/ \E s \in Signals, by \in Senders : Sending(s, by)

LEMMA KillStepped ==
  ASSUME Types, NEW p \in Processes, NEW from, NEW to, NEW s \in Signals, NEW by \in Senders,
         Kill(p, from, to, s, by),
         IF p = "parent" THEN to \in ParentLabels ELSE to \in ChildLabels,
         s = "SIGRTMIN" => Is("sigaction_multiple"),
         s = "SIGUSR1" => Is("sigaction") \/ Is("sigprocmask") \/ Is("sigaction_multiple")
  PROVE  Stepped
<1>1. Step(p, from, to)
  BY DEF Kill
<1>2. /\ DOMAIN pc' = Processes /\ pc'["parent"] \in ParentLabels /\ pc'["child"] \in ChildLabels
      /\ pc'[receiver] \in {"exit", "over"} => Ended(receiver) \/ handlers = <<>>
  <2>1. receiver \in Processes
    BY DEF receiver, Processes
  <2> QED BY <1>1, <2>1, Moves DEF Types, Processes, Ended
<1>3. pending' = pending \/ Sending(s, by)
  BY DEF Kill, Send, Sending
<1>4. UNCHANGED <<mask, handlers, caught, i, timer>>
  BY DEF Kill
<1> QED BY <1>2, <1>3, <1>4 DEF Stepped, Types

LEMMA GotoStepped ==
  ASSUME Types, NEW p \in Processes, NEW from, NEW to, Goto(p, from, to),
         IF p = "parent" THEN to \in ParentLabels ELSE to \in ChildLabels
  PROVE  Stepped
BY Moves DEF Goto, Stepped, Types, receiver, Processes, Ended

LEMMA ForkStepped ==
  ASSUME Types, NEW parent \in ParentLabels, NEW child \in ChildLabels \ {"exit"}, Fork(parent, child)
  PROVE  Stepped
<1>1. receiver = "parent" \/ receiver = "child"
  BY DEF receiver
<1>2. child \notin {"exit", "over"} /\ "as child" \in ParentLabels
  BY DEF ChildLabels, ParentLabels
<1> QED BY <1>1, <1>2, ForkMoves DEF Stepped, Types, Ended

LEMMA ProgramStepped == ASSUME Types, Parent \/ Child PROVE Stepped
<1> USE DEF Processes, Signals, Senders, ParentLabels, ChildLabels
<1>1. CASE Is("signal") /\ (signal_parent \/ signal_child)
  BY <1>1, ForkStepped, KillStepped, GotoStepped DEF signal_parent, signal_child, Wait
<1>2. CASE Is("sigaction") /\ (sigaction_parent \/ sigaction_child)
  <2>1. CASE sigsuspend
    BY <2>1, Moves DEF sigsuspend, Stepped, Types, receiver, Ended
  <2> QED
    BY <1>2, <2>1, ForkStepped, KillStepped, GotoStepped DEF sigaction_parent, sigaction_child, Wait
<1>3. CASE Is("sigprocmask") /\ (sigprocmask_parent \/ sigprocmask_child)
  <2>1. CASE Unblock
    BY <2>1, Moves DEF Unblock, Stepped, Types, receiver, Ended
  <2> QED
    BY <1>3, <2>1, ForkStepped, KillStepped, GotoStepped
    DEF sigprocmask_parent, sigprocmask_child, Wait
<1>4. CASE Is("sigaction_multiple") /\ (sigaction_multiple_parent \/ sigaction_multiple_child)
  <2>1. CASE For
    <3>1. Copies \in Nat /\ i \in 0..Copies /\ (i' = i \/ (i < Copies /\ i' = i + 1))
      BY <2>1, CopiesAssumption DEF Types, For
    <3>2. i' \in 0..Copies
      BY <3>1
    <3> QED
      BY <1>4, <2>1, <3>2, Moves DEF For, Stepped, Types, receiver, Ended, Is
  <2>2. i \in 0..Copies
    BY DEF Types
  <2> QED
    BY <1>4, <2>1, <2>2, ForkStepped, KillStepped, GotoStepped
    DEF sigaction_multiple_parent, sigaction_multiple_child, Wait
<1>5. CASE Is("sigaction_value") /\ (sigaction_value_parent \/ sigaction_value_child)
  <2>1. CASE timer_settime
    BY <1>5, <2>1, Moves DEF timer_settime, Stepped, Types, receiver, Ended
  <2> QED
    BY <1>5, <2>1, ForkStepped, KillStepped, GotoStepped
    DEF sigaction_value_parent, sigaction_value_child, Wait
<1> QED BY <1>1, <1>2, <1>3, <1>4, <1>5 DEF Parent, Child

\* The timer is that of sigaction_value.c.
Expired ==
  /\ timer = "armed" /\ Is("sigaction_value") /\ pending["SIGTERM"] = <<>>
  /\ pending' = [pending EXCEPT !["SIGTERM"] = <<"timer">>]
  /\ UNCHANGED <<pc, mask, handlers, caught, i, timer>>

LEMMA Expires == ASSUME Common, Expire PROVE Expired
BY DEF Expired, Expire, Send, Common, OwnSignals, Types, Signals

LEMMA HandlersDistinct ==
  ASSUME Common, NEW s \in Signals, ~Runs(s), NEW by \in Senders,
         handlers' = Append(handlers, [sig |-> s, by |-> by])
  PROVE  NoReentry'
<1>1. handlers \in Seq([sig : Signals, by : Senders]) /\ [sig |-> s, by |-> by] \in [sig : Signals, by : Senders]
  BY DEF Common, Types
<1>2. /\ DOMAIN handlers' = 1..(Len(handlers) + 1)
      /\ DOMAIN handlers = 1..Len(handlers) /\ Len(handlers) \in Nat
      /\ \A k \in DOMAIN handlers : handlers'[k] = handlers[k]
      /\ handlers'[Len(handlers) + 1] = [sig |-> s, by |-> by]
  BY <1>1, Appended
<1>3. \A k \in DOMAIN handlers' : k \in DOMAIN handlers \/ k = Len(handlers) + 1
  BY <1>2
<1> QED BY <1>2, <1>3 DEF Common, NoReentry, Runs

LEMMA CommonInductive == ASSUME Common, Next PROVE Common'
<1>0. program' = program /\ receiver' = receiver
  BY DEF Next, receiver, Is
<1>1. CASE Parent \/ Child
  <2>1. Stepped
    BY <1>1, ProgramStepped DEF Common
  <2>2. /\ pending' \in [Signals -> Seq(Senders)]
        /\ \A t \in Signals : \/ pending'[t] = pending[t]
                               \/ /\ t = "SIGRTMIN" \/ pending[t] = <<>>
                                  /\ \E by \in Senders : pending'[t] = Append(pending[t], by)
    <3>1. CASE pending' = pending
      BY <3>1 DEF Common, Types
    <3>2. ASSUME NEW s \in Signals, NEW by \in Senders, Sending(s, by)
          PROVE  /\ pending' \in [Signals -> Seq(Senders)]
                 /\ \A t \in Signals : t # s => pending'[t] = pending[t]
                 /\ pending'[s] = Append(pending[s], by)
      <4>1. pending \in [Signals -> Seq(Senders)] /\ pending[s] \in Seq(Senders)
        BY DEF Common, Types
      <4>2. Append(pending[s], by) \in Seq(Senders)
        BY <4>1, Appended
      <4> QED BY <3>2, <4>1, <4>2 DEF Sending
    <3> QED BY <2>1, <3>1, <3>2 DEF Stepped, Sending
  <2>3. Types'
    BY <1>0, <2>1, <2>2 DEF Stepped, Common, Types
  <2>4. NormalOnce'
    <3>1. \A by \in Senders : Len(Append(<<>>, by)) <= 1
      BY EmptySeq, Appended
    <3> QED BY <2>2, <3>1 DEF Common, NormalOnce, Signals
  <2>5. NoReentry' /\ HandlersHaveCaught'
    BY <1>0, <2>1 DEF Stepped, Common, Types, NoReentry, HandlersHaveCaught, Ended
  <2>6. OwnSignals'
    BY <1>0, <2>1, ProgramsAssumption DEF Stepped, Sending, Common, Types, OwnSignals, NotUsed, Is, Signals
  <2> QED BY <2>3, <2>4, <2>5, <2>6 DEF Common
<1>2. ASSUME NEW s \in Signals, Deliver(s) PROVE Common'
  <2>0. Delivered(s)
    BY <1>2, Delivers DEF Common
  <2>1. Types'
    BY <1>0, <2>0 DEF Delivered, Common, Types
  <2>2. Len(pending'[s]) = Len(pending[s]) - 1 /\ Len(pending[s]) \in Nat /\ pending[s] # <<>>
    <3>1. pending[s] \in Seq(Senders) /\ pending[s] # <<>> /\ pending'[s] = Tail(pending[s])
      BY <2>0 DEF Common, Types, Delivered
    <3> QED BY <3>1, Beheaded
  <2>3. \A t \in Signals : t # s => pending'[t] = pending[t] /\ caught'[t] = caught[t]
    BY <2>0 DEF Delivered
  <2>4. /\ UNCHANGED <<pc, timer>> /\ caught'[s] # <<>> /\ ~Ended(receiver)
        /\ \A k \in DOMAIN handlers' :
             (k \in DOMAIN handlers /\ handlers'[k] = handlers[k]) \/ handlers'[k].sig = s
    BY <2>0 DEF Delivered
  <2>5. NormalOnce'
    BY <2>2, <2>3 DEF Common, NormalOnce, Signals
  <2>6. NoReentry'
    BY <2>0, HandlersDistinct DEF Delivered
  <2>7. HandlersHaveCaught'
    <3>1. \A k \in DOMAIN handlers : handlers[k].sig \in Signals
      BY HandlersTyped DEF Common
    <3> QED BY <1>0, <2>3, <2>4, <3>1 DEF Common, HandlersHaveCaught, Ended
  <2>8. \A t \in Signals : NotUsed(t) => NotUsed(t)'
    <3>1. ASSUME NEW t \in Signals, NotUsed(t) PROVE t # s
      BY <2>2, <3>1 DEF NotUsed
    <3> QED BY <2>3, <2>4, <3>1 DEF NotUsed
  <2>9. OwnSignals'
    BY <1>0, <2>4, <2>8 DEF Common, OwnSignals, Is, Signals
  <2> QED BY <2>1, <2>5, <2>6, <2>7, <2>9 DEF Common
<1>3. CASE EndHandler
  <2>0. Returned
    BY <1>3, Returns DEF Common
  <2>1. Types'
    <3>1. receiver = "parent" \/ receiver = "child"
      BY DEF receiver
    <3>2. DOMAIN pc' = Processes /\ pc'["parent"] \in ParentLabels /\ pc'["child"] \in ChildLabels
      BY <2>0, <3>1, ComesAfter DEF Returned, Common, Types, ParentLabels, ChildLabels, Processes
    <3> QED BY <1>0, <2>0, <3>2 DEF Returned, Common, Types
  <2>2. NormalOnce' /\ NoReentry'
    BY <2>0 DEF Returned, Common, NormalOnce, NoReentry
  <2>3. HandlersHaveCaught'
    BY <1>0, <2>0 DEF Returned, Common, Types, HandlersHaveCaught, Ended
  <2>4. OwnSignals'
    BY <1>0, <2>0 DEF Returned, Common, Types, OwnSignals, NotUsed, Is
  <2> QED BY <2>1, <2>2, <2>3, <2>4 DEF Common
<1>4. CASE Expire
  <2>0. Expired
    BY <1>4, Expires
  <2>1. Types'
    <3>1. "timer" \in Senders /\ <<>> \in Seq(Senders) /\ "SIGTERM" \in Signals
      BY EmptySeq DEF Senders, Signals
    <3>2. <<"timer">> \in Seq(Senders) /\ pending \in [Signals -> Seq(Senders)]
      BY <3>1 DEF Common, Types
    <3>3. pending' \in [Signals -> Seq(Senders)]
      BY <2>0, <3>1, <3>2 DEF Expired
    <3> QED BY <1>0, <2>0, <3>3 DEF Expired, Common, Types
  <2>2. NormalOnce'
    <3>1. pending \in [Signals -> Seq(Senders)] /\ Len(<<"timer">>) = 1
      BY DEF Common, Types
    <3> QED BY <2>0, <3>1 DEF Expired, Common, NormalOnce, Signals
  <2>4. NoReentry' /\ HandlersHaveCaught'
    BY <1>0, <2>0 DEF Expired, Common, NoReentry, HandlersHaveCaught, Ended
  <2>3. OwnSignals'
    BY <1>0, <2>0 DEF Expired, Common, Types, OwnSignals, NotUsed, Is, Signals
  <2> QED BY <2>1, <2>2, <2>3, <2>4 DEF Common
<1> QED BY <1>1, <1>2, <1>3, <1>4 DEF Next, Handling

-----------------------------------------------------------------------------
(* Program by program *)

LEMMA SignalInductive ==
  ASSUME IInv, Next, Is("signal") PROVE InSignal' /\ Waited' /\ NoChildYet'
<1> USE DEF IInv, InSignal, Waited, NoChildYet, BeforeFork
<1>0. receiver = "child" /\ Types /\ Common
  BY DEF Common, receiver
<1>1. CASE signal_parent \/ signal_child
  <2>1. CASE Fork("kill", "pause")
    <3>1. /\ \/ ParentMoved("fork", "as child")
             \/ pc["parent"] = "fork" /\ pc'["parent"] = "kill" /\ pc'["child"] = "pause"
          /\ mask' = mask
      BY <1>0, <2>1, Forks
    <3> QED BY <3>1 DEF ParentMoved
  <2>2. CASE Kill("parent", "kill", "wait", "SIGTERM", "kill")
    <3>1. ParentMoved("kill", "wait") /\ mask' = mask
      BY <1>0, <2>2, ParentMoves DEF Kill
    <3> QED BY <3>1 DEF ParentMoved
  <2>3. CASE Wait
    BY <1>0, <2>3, Waits DEF ParentMoved
  <2>4. CASE signal_child
    BY <1>0, <2>4, ChildMoves DEF signal_child, Goto, ChildMoved
  <2> QED BY <1>1, <2>1, <2>2, <2>3, <2>4 DEF signal_parent
<1>2. ASSUME NEW s \in Signals, Deliver(s) PROVE InSignal' /\ Waited' /\ NoChildYet'
  <2>1. Delivered(s)
    BY <1>0, <1>2, Delivers
  <2> QED BY <1>0, <2>1 DEF Delivered
<1>3. CASE EndHandler
  <2>1. Returned
    BY <1>0, <1>3, Returns
  <2> QED BY <1>0, <2>1, ComesAfter DEF Returned, Processes
<1>4. CASE Expire
  BY <1>0, <1>4, Expires DEF Expired, Is
<1> QED BY <1>1, <1>2, <1>3, <1>4 DEF Next, Parent, Child, Handling, Is

\* A delivered signal was sent and is caught; a normal one is pending no longer.
LEMMA DeliveredIsCaught ==
  ASSUME Common, NEW s \in Signals, Delivered(s)
  PROVE  /\ pending[s] # <<>> /\ s \notin mask /\ caught'[s] # <<>>
         /\ \A t \in Signals : t # s => pending'[t] = pending[t] /\ caught'[t] = caught[t]
         /\ \A t \in Signals : Sent(t)' <=> Sent(t)
         /\ s # "SIGRTMIN" => pending'[s] = <<>>
         /\ Only(s) => Only(s)'
         /\ UNCHANGED <<pc, mask, i, timer>>
<1>1. /\ pending[s] # <<>> /\ s \notin mask /\ caught'[s] # <<>> /\ pending[s] \in Seq(Senders)
      /\ pending'[s] = Tail(pending[s])
      /\ \A t \in Signals : t # s => pending'[t] = pending[t] /\ caught'[t] = caught[t]
      /\ UNCHANGED <<pc, mask, i, timer>>
      /\ \A k \in DOMAIN handlers' :
           (k \in DOMAIN handlers /\ handlers'[k] = handlers[k]) \/ handlers'[k].sig = s
  BY DEF Delivered, Common, Types
<1>2. s # "SIGRTMIN" => Len(pending[s]) <= 1
  BY DEF Common, NormalOnce, Signals
<1>3. s # "SIGRTMIN" => pending'[s] = <<>>
  BY <1>1, <1>2, OnlyOne
<1>4. Only(s) => Only(s)'
  BY <1>1 DEF Only
<1> QED BY <1>1, <1>3, <1>4 DEF Sent

\* A signal that the child sends to a parent that is still there is pending then.
LEMMA ChildSends ==
  ASSUME Types, receiver = "parent", NEW from, NEW to, NEW s \in Signals, NEW by \in Senders,
         Kill("child", from, to, s, by)
  PROVE  /\ ChildMoved(from, to) /\ UNCHANGED <<mask, handlers, caught, i, timer>>
         /\ \A t \in Signals : t # s => pending'[t] = pending[t]
         /\ pc["parent"] # "over" => pending'[s] # <<>>
         /\ \/ /\ s = "SIGRTMIN" \/ pending[s] = <<>>
               /\ pending'[s] = Append(pending[s], by)
            \/ /\ pc["parent"] = "over" \/ (s # "SIGRTMIN" /\ pending[s] # <<>>)
               /\ pending'[s] = pending[s]
<1>1. ChildMoved(from, to)
  BY ChildMoves DEF Kill
<1>2. pending[s] \in Seq(Senders)
  BY DEF Types
<1>3. Append(pending[s], by) # <<>>
  BY <1>2, Appended
<1>4. "child" \in Processes /\ (Ended(receiver) => pc["parent"] = "over")
  BY DEF Types, Ended, ParentLabels, Processes
<1> QED BY <1>1, <1>3, <1>4, Sends

LEMMA SigactionInductive ==
  ASSUME IInv, Next, Is("sigaction") PROVE InSigaction' /\ Waited' /\ NoChildYet'
<1> DEFINE Goal == InSigaction /\ Waited /\ NoChildYet
<1>0. /\ receiver = "parent" /\ Types /\ Common /\ InSigaction /\ Waited /\ NoChildYet
      /\ NotUsed("SIGRTMIN")
  BY DEF IInv, Common, receiver, OwnSignals, Is
<1>1. CASE sigaction_parent
  <2>1. CASE Fork("sigsuspend", "kill_usr1")
    <3>1. /\ \/ ParentMoved("fork", "as child")
             \/ /\ pc["parent"] = "fork" /\ pc'["parent"] = "sigsuspend"
                /\ pc'["child"] = "kill_usr1"
          /\ SignalsKept /\ mask' = mask
      BY <1>0, <2>1, Forks
    <3> QED BY <1>0, <3>1
            DEF ParentMoved, SignalsKept, InSigaction, Waited, NoChildYet, BeforeFork, Sent, Only
  <2>2. CASE sigsuspend
    <3>1. /\ ParentMoved("sigsuspend", "suspended") /\ Idle
          /\ SignalsKept /\ mask' = Signals \ {"SIGTERM"}
      BY <1>0, <2>2, ParentMoves DEF sigsuspend, SignalsKept
    <3> QED BY <1>0, <3>1
            DEF ParentMoved, SignalsKept, Idle, InSigaction, Waited, NoChildYet, BeforeFork, Sent, Only
  <2>3. CASE Wait
    <3>1. /\ ParentMoved("wait", "over") /\ pc["child"] = "exit" /\ Idle
          /\ SignalsKept /\ mask' = mask
      BY <1>0, <2>3, Waits
    <3> QED BY <1>0, <3>1
            DEF ParentMoved, SignalsKept, Idle, InSigaction, Waited, NoChildYet, BeforeFork, Sent, Only, Signals
  <2> QED BY <1>1, <2>1, <2>2, <2>3 DEF sigaction_parent
<1>2. ASSUME NEW s \in Signals, Deliver(s) PROVE Goal'
  <2>1. /\ pending[s] # <<>> /\ s \notin mask /\ caught'[s] # <<>>
        /\ \A t \in Signals : t # s => pending'[t] = pending[t] /\ caught'[t] = caught[t]
        /\ \A t \in Signals : Sent(t)' <=> Sent(t)
        /\ s # "SIGRTMIN" => pending'[s] = <<>>
        /\ Only(s) => Only(s)'
        /\ UNCHANGED <<pc, mask, i, timer>>
    BY <1>0, <1>2, Delivers, DeliveredIsCaught
  <2>2. s \in {"SIGTERM", "SIGUSR1"}
    BY <1>0, <2>1 DEF NotUsed, Signals
  <2>3. s = "SIGTERM" => pc["parent"] \notin {"wait", "over"}
    BY <1>0, <2>1 DEF InSigaction
  <2>4. s # "SIGTERM" => pc["parent"] # "suspended"
    BY <1>0, <2>1 DEF InSigaction
  <2> QED BY <1>0, <2>1, <2>2, <2>3, <2>4 DEF InSigaction, Waited, NoChildYet, Signals
<1>3. CASE EndHandler
  <2>1. Returned
    BY <1>0, <1>3, Returns
  <2>2. /\ \A t \in Signals : (Sent(t)' <=> Sent(t)) /\ caught'[t] = caught[t] /\ pending'[t] = pending[t]
        /\ \A t \in Signals : Only(t) => Only(t)'
        /\ handlers # <<>> /\ DOMAIN handlers # {}
        /\ handlers' = <<>> => \A t \in Signals : Only(t)'
    BY <2>1 DEF Returned, Sent, Only
  <2>3. Only("SIGTERM") => caught["SIGTERM"] # <<>>
    BY <1>0, <2>2 DEF Only, Common, HandlersHaveCaught
  <2>4. Only("SIGUSR1") => caught["SIGUSR1"] # <<>>
    BY <1>0, <2>2 DEF Only, Common, HandlersHaveCaught
  <2>5. /\ pc'["child"] = pc["child"]
        /\ \/ pc'["parent"] = pc["parent"] /\ mask' = mask
           \/ pc["parent"] = "suspended" /\ pc'["parent"] = "wait" /\ mask' = {} /\ handlers' = <<>>
           \/ pc["parent"] = "wait" /\ pc'["parent"] = "over" /\ mask' = mask
    BY <1>0, <2>1, ComesAfter DEF Returned, InSigaction, Processes
  <2> QED BY <1>0, <2>2, <2>3, <2>4, <2>5 DEF InSigaction, Waited, NoChildYet, BeforeFork, Sent, Signals
<1>4. CASE sigaction_child
  <2>1. CASE Kill("child", "kill_usr1", "kill_term", "SIGUSR1", "kill")
    <3>1. /\ ChildMoved("kill_usr1", "kill_term") /\ UNCHANGED <<mask, handlers, caught>>
          /\ pending'["SIGTERM"] = pending["SIGTERM"]
          /\ pc["parent"] # "over" => pending'["SIGUSR1"] # <<>>
      BY <1>0, <2>1, ChildSends DEF Signals, Senders
    <3> QED BY <1>0, <3>1 DEF ChildMoved, InSigaction, Waited, NoChildYet, BeforeFork, Sent, Only
  <2>2. CASE Kill("child", "kill_term", "exit", "SIGTERM", "kill")
    <3>1. /\ ChildMoved("kill_term", "exit") /\ UNCHANGED <<mask, handlers, caught>>
          /\ pending'["SIGUSR1"] = pending["SIGUSR1"]
      BY <1>0, <2>2, ChildSends DEF Signals, Senders
    <3> QED BY <1>0, <3>1 DEF ChildMoved, InSigaction, Waited, NoChildYet, BeforeFork, Sent, Only
  <2> QED BY <1>4, <2>1, <2>2 DEF sigaction_child
<1>5. ~Expire
  BY <1>0, Expires DEF Expired, Is
<1> QED BY <1>1, <1>2, <1>3, <1>4, <1>5 DEF Next, Parent, Child, Handling, Is

LEMMA SigprocmaskInductive ==
  ASSUME IInv, Next, Is("sigprocmask") PROVE InSigprocmask' /\ Waited' /\ NoChildYet'
<1> DEFINE Goal == InSigprocmask /\ Waited /\ NoChildYet
<1>0. /\ receiver = "parent" /\ Types /\ Common /\ InSigprocmask /\ Waited /\ NoChildYet
      /\ NotUsed("SIGRTMIN")
  BY DEF IInv, Common, receiver, OwnSignals, Is
<1>1. CASE sigprocmask_parent
  <2>1. CASE Fork("pause_usr1", "kill_term")
    <3>1. /\ \/ ParentMoved("fork", "as child")
             \/ /\ pc["parent"] = "fork" /\ pc'["parent"] = "pause_usr1"
                /\ pc'["child"] = "kill_term"
          /\ SignalsKept /\ mask' = mask
      BY <1>0, <2>1, Forks
    <3> QED BY <1>0, <3>1
            DEF ParentMoved, SignalsKept, InSigprocmask, Waited, NoChildYet, BeforeFork, Sent, Only
  <2>2. CASE Goto("parent", "pause_usr1", "paused_usr1")
    <3>1. ParentMoved("pause_usr1", "paused_usr1") /\ SignalsKept /\ mask' = mask
      BY <1>0, <2>2, ParentMoves DEF Goto, SignalsKept
    <3> QED BY <1>0, <3>1
            DEF ParentMoved, SignalsKept, InSigprocmask, Waited, NoChildYet, BeforeFork, Sent, Only
  <2>3. CASE Unblock
    <3>1. ParentMoved("unblock", "wait") /\ SignalsKept /\ mask' = {}
      BY <1>0, <2>3, ParentMoves DEF Unblock, SignalsKept
    <3> QED BY <1>0, <3>1
            DEF ParentMoved, SignalsKept, InSigprocmask, Waited, NoChildYet, BeforeFork, Sent
  <2>4. CASE Wait
    <3>1. /\ ParentMoved("wait", "over") /\ pc["child"] = "exit" /\ Idle
          /\ SignalsKept /\ mask' = mask
      BY <1>0, <2>4, Waits
    <3>2. pending["SIGTERM"] = <<>>
      BY <1>0, <3>1 DEF Idle, ParentMoved, InSigprocmask, Signals
    <3> QED BY <1>0, <3>1, <3>2
            DEF ParentMoved, SignalsKept, InSigprocmask, Waited, NoChildYet, BeforeFork, Sent
  <2> QED BY <1>1, <2>1, <2>2, <2>3, <2>4 DEF sigprocmask_parent
<1>2. ASSUME NEW s \in Signals, Deliver(s) PROVE Goal'
  <2>1. /\ pending[s] # <<>> /\ s \notin mask /\ caught'[s] # <<>>
        /\ \A t \in Signals : t # s => pending'[t] = pending[t] /\ caught'[t] = caught[t]
        /\ \A t \in Signals : Sent(t)' <=> Sent(t)
        /\ Only(s) => Only(s)'
        /\ UNCHANGED <<pc, mask, i, timer>>
    BY <1>0, <1>2, Delivers, DeliveredIsCaught
  <2>2. s \in {"SIGTERM", "SIGUSR1"}
    BY <1>0, <2>1 DEF NotUsed, Signals
  <2>3. pc["parent"] \notin {"wait", "over"} => s # "SIGTERM"
    BY <1>0, <2>1 DEF InSigprocmask
  <2> QED BY <1>0, <2>1, <2>2, <2>3 DEF InSigprocmask, Waited, NoChildYet, Signals
<1>3. CASE EndHandler
  <2>1. Returned
    BY <1>0, <1>3, Returns
  <2>2. /\ \A t \in Signals : (Sent(t)' <=> Sent(t)) /\ caught'[t] = caught[t] /\ pending'[t] = pending[t]
        /\ \A t \in Signals : Only(t) => Only(t)'
        /\ handlers # <<>> /\ DOMAIN handlers # {}
    BY <2>1 DEF Returned, Sent, Only
  <2>3. Only("SIGUSR1") => caught["SIGUSR1"] # <<>>
    BY <1>0, <2>2 DEF Only, Common, HandlersHaveCaught
  <2>4. /\ pc'["child"] = pc["child"] /\ mask' = mask
        /\ \/ pc'["parent"] = pc["parent"]
           \/ pc["parent"] = "paused_usr1" /\ pc'["parent"] = "unblock"
    BY <1>0, <2>1, ComesAfter DEF Returned, InSigprocmask, Processes, Restarts, Is
  <2> QED BY <1>0, <2>2, <2>3, <2>4 DEF InSigprocmask, Waited, NoChildYet, BeforeFork, Signals
<1>4. CASE sigprocmask_child
  <2>1. CASE Kill("child", "kill_term", "kill_usr1", "SIGTERM", "kill")
    <3>1. /\ ChildMoved("kill_term", "kill_usr1") /\ UNCHANGED <<mask, handlers, caught>>
          /\ pending'["SIGUSR1"] = pending["SIGUSR1"]
          /\ pc["parent"] # "over" => pending'["SIGTERM"] # <<>>
      BY <1>0, <2>1, ChildSends DEF Signals, Senders
    <3> QED BY <1>0, <3>1 DEF ChildMoved, InSigprocmask, Waited, NoChildYet, BeforeFork, Sent, Only
  <2>2. CASE Kill("child", "kill_usr1", "exit", "SIGUSR1", "kill")
    <3>1. /\ ChildMoved("kill_usr1", "exit") /\ UNCHANGED <<mask, handlers, caught>>
          /\ pending'["SIGTERM"] = pending["SIGTERM"]
      BY <1>0, <2>2, ChildSends DEF Signals, Senders
    <3> QED BY <1>0, <3>1 DEF ChildMoved, InSigprocmask, Waited, NoChildYet, BeforeFork, Sent, Only
  <2> QED BY <1>4, <2>1, <2>2 DEF sigprocmask_child
<1>5. ~Expire
  BY <1>0, Expires DEF Expired, Is
<1> QED BY <1>1, <1>2, <1>3, <1>4, <1>5 DEF Next, Parent, Child, Handling, Is

LEMMA SigactionMultipleInductive ==
  ASSUME IInv, Next, Is("sigaction_multiple") PROVE InSigactionMultiple' /\ Waited' /\ NoChildYet'
<1> DEFINE Goal == InSigactionMultiple /\ Waited /\ NoChildYet
           RT == "SIGRTMIN"
           USR == "SIGUSR1"
<1>0. /\ receiver = "parent" /\ Types /\ Common /\ InSigactionMultiple /\ Waited /\ NoChildYet
      /\ i \in Int /\ Copies \in Nat /\ i \in 0..Copies
  BY CopiesAssumption DEF IInv, Common, receiver, Is, Types
<1>t. /\ pending[RT] \in Seq(Senders) /\ caught[RT] \in Seq(Senders)
      /\ pending[USR] \in Seq(Senders) /\ caught[USR] \in Seq(Senders)
  BY <1>0 DEF Types, Signals
<1>l. /\ NPending(RT) \in Nat /\ NCaught(RT) \in Nat
      /\ NPending(USR) \in Nat /\ NCaught(USR) \in Nat
      /\ DOMAIN pending[RT] = 1..NPending(RT) /\ DOMAIN caught[RT] = 1..NCaught(RT)
  BY <1>t, LenProperties DEF NCaught, NPending
<1>1. CASE sigaction_multiple_parent
  <2>1. CASE Fork("wait", "for")
    <3>1. /\ \/ ParentMoved("fork", "as child")
             \/ pc["parent"] = "fork" /\ pc'["parent"] = "wait" /\ pc'["child"] = "for"
          /\ SignalsKept /\ mask' = mask /\ i' = i
      BY <1>0, <2>1, Forks
    <3> QED BY <1>0, <3>1
            DEF ParentMoved, SignalsKept, InSigactionMultiple, SentUsr1, SentRtmin,
                Waited, NoChildYet, BeforeFork, Sent, NCaught, NPending
  <2>2. CASE Wait
    <3>1. /\ ParentMoved("wait", "over") /\ pc["child"] = "exit" /\ Idle
          /\ SignalsKept /\ mask' = mask /\ i' = i
      BY <1>0, <2>2, Waits
    <3>2. pending[RT] = <<>> /\ pending[USR] = <<>>
      BY <1>0, <3>1 DEF Idle, InSigactionMultiple, Signals
    <3> QED BY <1>0, <3>1, <3>2
            DEF ParentMoved, SignalsKept, InSigactionMultiple, SentUsr1, SentRtmin,
                Waited, NoChildYet, BeforeFork, Sent, NCaught, NPending
  <2> QED BY <1>1, <2>1, <2>2 DEF sigaction_multiple_parent
<1>2. ASSUME NEW s \in Signals, Deliver(s) PROVE Goal'
  <2>1. /\ Delivered(s) /\ pending[s] # <<>> /\ ~Ended("parent") /\ UNCHANGED <<pc, mask, i>>
        /\ pending'[s] = Tail(pending[s]) /\ caught'[s] = Append(caught[s], Head(pending[s]))
        /\ \A t \in Signals : t # s => pending'[t] = pending[t] /\ caught'[t] = caught[t]
    BY <1>0, <1>2, Delivers DEF Delivered
  <2>2. \A t \in Signals : Sent(t)' <=> Sent(t)
    BY <1>0, <2>1, DeliveredIsCaught
  <2>3. pending[s] \in Seq(Senders) /\ caught[s] \in Seq(Senders)
    BY <1>0 DEF Types
  <2>4. /\ NPending(s)' = NPending(s) - 1 /\ NPending(s) \in Nat \ {0}
        /\ DOMAIN pending'[s] = 1..(NPending(s) - 1)
        /\ Head(pending[s]) = pending[s][1] /\ Head(pending[s]) \in Senders
        /\ \A k \in DOMAIN pending'[s] : pending'[s][k] = pending[s][k + 1]
    BY <2>1, <2>3, Beheaded DEF NPending
  <2>5. /\ NCaught(s)' = NCaught(s) + 1 /\ DOMAIN caught'[s] = 1..(NCaught(s) + 1)
        /\ NCaught(s) \in Nat /\ \A k \in DOMAIN caught[s] : caught'[s][k] = caught[s][k]
        /\ DOMAIN caught[s] = 1..NCaught(s)
        /\ caught'[s][NCaught(s) + 1] = Head(pending[s])
    BY <2>1, <2>3, <2>4, Appended DEF NCaught
  <2>6. /\ NCaught(RT)' + NPending(RT)' = NCaught(RT) + NPending(RT)
        /\ NCaught(USR)' + NPending(USR)' = NCaught(USR) + NPending(USR)
    <3>1. NCaught(s)' + NPending(s)' = NCaught(s) + NPending(s)
      BY <2>4, <2>5
    <3>2. \A t \in Signals : t # s => caught'[t] = caught[t] /\ pending'[t] = pending[t]
      BY <2>1
    <3> QED BY <3>1, <3>2 DEF Signals, NCaught, NPending
  <2>7. /\ \A k \in DOMAIN caught'[RT] : caught'[RT][k] = k
        /\ \A k \in DOMAIN pending'[RT] : pending'[RT][k] = NCaught(RT)' + k
    <3>1. CASE s = RT
      <4>1. /\ \A k \in 1..NCaught(RT) : caught[RT][k] = k
            /\ \A k \in 1..NPending(RT) : pending[RT][k] = NCaught(RT) + k
        BY <1>0, <1>l DEF InSigactionMultiple
      <4>2. 1 \in 1..NPending(RT) /\ Head(pending[RT]) = NCaught(RT) + 1
        BY <1>l, <2>4, <3>1, <4>1
      <4>3. \A k \in 1..(NCaught(RT) + 1) : k \in 1..NCaught(RT) \/ k = NCaught(RT) + 1
        BY <1>l
      <4>4. \A k \in DOMAIN caught'[RT] : caught'[RT][k] = k
        BY <2>5, <3>1, <4>1, <4>2, <4>3
      <4>5. \A k \in 1..(NPending(RT) - 1) :
              k + 1 \in 1..NPending(RT) /\ NCaught(RT) + (k + 1) = (NCaught(RT) + 1) + k
        BY <1>l
      <4>6. \A k \in DOMAIN pending'[RT] : pending'[RT][k] = NCaught(RT)' + k
        BY <2>4, <2>5, <3>1, <4>1, <4>5
      <4> QED BY <4>4, <4>6
    <3>2. CASE s # RT
      BY <1>0, <3>2, <2>1 DEF InSigactionMultiple, Signals, NCaught
    <3> QED BY <3>1, <3>2
  <2>8. pc["parent"] # "over"
    BY <2>1 DEF Ended
  <2> QED BY <1>0, <2>1, <2>2, <2>6, <2>7, <2>8
          DEF InSigactionMultiple, SentUsr1, SentRtmin, Waited, NoChildYet, Signals
<1>3. CASE EndHandler
  <2>1. Returned
    BY <1>0, <1>3, Returns
  <2>2. UNCHANGED <<pending, caught, i>> /\ handlers # <<>>
    BY <2>1 DEF Returned
  <2>3. pc'["child"] = pc["child"] /\ mask' = mask /\ pc'["parent"] = pc["parent"]
    BY <1>0, <2>1, ComesAfter DEF Returned, InSigactionMultiple, Processes, Restarts, Is
  <2> QED BY <1>0, <2>2, <2>3
          DEF InSigactionMultiple, SentUsr1, SentRtmin, Waited, NoChildYet, Sent, NCaught, NPending
<1>4. CASE sigaction_multiple_child
  <2>0. pc["parent"] # "over" \/ pc["child"] = "exit"
    BY <1>0 DEF Waited
  <2>1. CASE For
    <3>1. /\ \/ i < Copies /\ ChildMoved("for", "kill_usr1") /\ i' = i + 1
             \/ ~(i < Copies) /\ ChildMoved("for", "exit") /\ i' = i
          /\ SignalsKept /\ mask' = mask
      BY <1>0, <2>1, ChildMoves DEF For, SignalsKept
    <3>2. /\ pc'["child"] = "exit" => i' = Copies
          /\ pc'["child"] = "kill_usr1" => i' >= 1
          /\ SentUsr1' = SentUsr1 /\ SentRtmin' = SentRtmin
      BY <1>0, <3>1 DEF ChildMoved, SentUsr1, SentRtmin
    <3> QED BY <1>0, <3>1, <3>2
            DEF ChildMoved, SignalsKept, InSigactionMultiple, Waited, NoChildYet, BeforeFork, Sent, NCaught, NPending
  <2>2. CASE Kill("child", "kill_usr1", "kill_rtmin", USR, i)
    <3>1. /\ ChildMoved("kill_usr1", "kill_rtmin") /\ UNCHANGED <<mask, caught, i>>
          /\ pending'[RT] = pending[RT] /\ pending'[USR] # <<>>
          /\ pending'[USR] = pending[USR] \/ pending'[USR] = Append(pending[USR], i)
      BY <1>0, <2>0, <2>2, ChildSends DEF Signals, Senders, ChildMoved
    <3>2. NPending(USR)' <= NPending(USR) + 1 /\ NPending(USR)' \in Nat
      BY <1>0, <1>t, <1>l, <3>1, Appended DEF Senders, NPending
    <3>3. /\ SentUsr1' = SentUsr1 + 1 /\ SentRtmin' = SentRtmin /\ SentUsr1 \in Int
      BY <1>0, <3>1 DEF ChildMoved, SentUsr1, SentRtmin
    <3>4. NCaught(USR)' + NPending(USR)' <= SentUsr1'
      <4>1. NCaught(USR) + NPending(USR) <= SentUsr1 /\ NCaught(USR)' = NCaught(USR)
        BY <1>0, <3>1 DEF InSigactionMultiple, NCaught
      <4> QED BY <1>l, <3>2, <3>3, <4>1
    <3> QED BY <1>0, <3>1, <3>3, <3>4
            DEF ChildMoved, InSigactionMultiple, Waited, NoChildYet, BeforeFork, Sent, NCaught, NPending
  <2>3. CASE Kill("child", "kill_rtmin", "for", RT, i)
    <3>1. /\ ChildMoved("kill_rtmin", "for") /\ UNCHANGED <<mask, caught, i>>
          /\ pending'[USR] = pending[USR]
          /\ pending'[RT] = Append(pending[RT], i)
      BY <1>0, <2>0, <2>3, ChildSends DEF Signals, Senders, ChildMoved
    <3>2. /\ NPending(RT)' = NPending(RT) + 1
          /\ DOMAIN pending'[RT] = 1..(NPending(RT) + 1)
          /\ \A k \in DOMAIN pending[RT] : pending'[RT][k] = pending[RT][k]
          /\ pending'[RT][NPending(RT) + 1] = i
      BY <1>0, <1>t, <3>1, Appended DEF Senders, NPending
    <3>3. SentUsr1' = SentUsr1 /\ SentRtmin' = SentRtmin + 1 /\ SentRtmin = i - 1
      BY <1>0, <3>1 DEF ChildMoved, SentUsr1, SentRtmin
    <3>4. /\ NCaught(RT)' + NPending(RT)' = SentRtmin'
          /\ \A k \in DOMAIN pending'[RT] : pending'[RT][k] = NCaught(RT)' + k
      <4>1. /\ NCaught(RT) + NPending(RT) = SentRtmin /\ NCaught(RT)' = NCaught(RT)
            /\ \A k \in 1..NPending(RT) : pending[RT][k] = NCaught(RT) + k
        BY <1>0, <1>l, <3>1 DEF InSigactionMultiple, NCaught
      <4>2. NCaught(RT) + (NPending(RT) + 1) = i
        <5>1. NCaught(RT) + NPending(RT) = i - 1
          BY <3>3, <4>1
        <5>2. NCaught(RT) \in Nat /\ NPending(RT) \in Nat /\ i \in Int
          BY <1>0, <1>l
        <5> QED BY <5>1, <5>2
      <4>3. \A k \in 1..(NPending(RT) + 1) : k \in 1..NPending(RT) \/ k = NPending(RT) + 1
        BY <1>l
      <4>4. SentRtmin' = i
        BY <1>0, <3>3
      <4>5. \A k \in DOMAIN pending'[RT] : pending'[RT][k] = NCaught(RT)' + k
        BY <1>l, <3>2, <4>1, <4>2, <4>3
      <4> QED BY <3>2, <4>1, <4>2, <4>4, <4>5
    <3> QED BY <1>0, <3>1, <3>3, <3>4
            DEF ChildMoved, InSigactionMultiple, Waited, NoChildYet, BeforeFork, Sent, NCaught, NPending
  <2> QED BY <1>4, <2>1, <2>2, <2>3 DEF sigaction_multiple_child
<1>5. ~Expire
  BY <1>0, Expires DEF Expired, Is
<1> QED BY <1>1, <1>2, <1>3, <1>4, <1>5 DEF Next, Parent, Child, Handling, Is

LEMMA DeliveredFrom ==
  ASSUME Common, Delivered("SIGTERM"), NEW by, Pending(by)
  PROVE  /\ pending'["SIGTERM"] = <<>> /\ \A x : Caught(x)' <=> Caught(x) \/ x = by
         /\ \A k \in DOMAIN handlers' :
              (k \in DOMAIN handlers /\ handlers'[k].by = handlers[k].by) \/ handlers'[k].by = by
<1>1. /\ pending["SIGTERM"] = <<by>> /\ Head(pending["SIGTERM"]) = by /\ by \in Senders
      /\ caught["SIGTERM"] \in Seq(Senders)
      /\ pending'["SIGTERM"] = Tail(pending["SIGTERM"])
      /\ caught'["SIGTERM"] = Append(caught["SIGTERM"], by)
  BY DEF Common, Types, Delivered, Pending, Signals
<1>2. pending'["SIGTERM"] = <<>>
  BY <1>1
<1>3. \A x : Caught(x)' <=> Caught(x) \/ x = by
  <2>1. /\ DOMAIN caught'["SIGTERM"] = 1..(Len(caught["SIGTERM"]) + 1)
        /\ DOMAIN caught["SIGTERM"] = 1..Len(caught["SIGTERM"])
        /\ Len(caught["SIGTERM"]) \in Nat
        /\ \A k \in DOMAIN caught["SIGTERM"] : caught'["SIGTERM"][k] = caught["SIGTERM"][k]
        /\ caught'["SIGTERM"][Len(caught["SIGTERM"]) + 1] = by
    BY <1>1, Appended
  <2>2. \A n \in Nat : \A k \in 1..(n + 1) : k \in 1..n \/ k = n + 1
    OBVIOUS
  <2>3. \A n \in Nat : n + 1 \in 1..(n + 1) /\ \A k \in 1..n : k \in 1..(n + 1)
    OBVIOUS
  <2> QED BY <2>1, <2>2, <2>3 DEF Caught
<1>4. \A k \in DOMAIN handlers' :
        (k \in DOMAIN handlers /\ handlers'[k].by = handlers[k].by) \/ handlers'[k].by = by
  BY <1>1 DEF Delivered
<1> QED BY <1>2, <1>3, <1>4

LEMMA SigactionValueInductive ==
  ASSUME IInv, Next, Is("sigaction_value") PROVE InSigactionValue' /\ Waited' /\ NoChildYet'
<1> DEFINE Goal == InSigactionValue /\ Waited /\ NoChildYet
           TERM == "SIGTERM"
<1>0. /\ receiver = "parent" /\ Types /\ Common /\ InSigactionValue /\ Waited /\ NoChildYet
      /\ NotUsed("SIGRTMIN") /\ NotUsed("SIGUSR1")
  BY DEF IInv, Common, receiver, OwnSignals, Is
\* A step that leaves the signals alone
<1>k. SignalsKept => \A x : (Caught(x)' <=> Caught(x)) /\ (Pending(x)' <=> Pending(x))
  BY DEF SignalsKept, Caught, Pending
<1>1. CASE sigaction_value_parent
  <2>1. CASE timer_settime
    <3>1. ParentMoved("timer_settime", "pause_timer") /\ SignalsKept /\ mask' = mask
      BY <1>0, <2>1, ParentMoves DEF timer_settime, SignalsKept
    <3> QED BY <1>0, <1>k, <3>1
            DEF ParentMoved, SignalsKept, InSigactionValue, Waited, NoChildYet, BeforeFork
  <2>2. CASE Goto("parent", "pause_timer", "paused_timer")
    <3>1. ParentMoved("pause_timer", "paused_timer") /\ SignalsKept /\ UNCHANGED <<mask, timer>>
      BY <1>0, <2>2, ParentMoves DEF Goto, SignalsKept
    <3> QED BY <1>0, <1>k, <3>1
            DEF ParentMoved, SignalsKept, InSigactionValue, Waited, NoChildYet, BeforeFork
  <2>3. CASE Fork("pause_kill", "kill")
    <3>1. /\ \/ ParentMoved("fork", "as child")
             \/ pc["parent"] = "fork" /\ pc'["parent"] = "pause_kill" /\ pc'["child"] = "kill"
          /\ SignalsKept /\ UNCHANGED <<mask, timer>> /\ Idle
      BY <1>0, <2>3, Forks
    <3>2. pending[TERM] = <<>>
      BY <1>0, <3>1 DEF Idle, InSigactionValue, Signals
    <3>3. \A x : ~Pending(x)
      BY <3>2 DEF Pending
    <3> QED BY <1>0, <1>k, <3>1, <3>2, <3>3
            DEF ParentMoved, SignalsKept, Idle, InSigactionValue, Waited, NoChildYet, BeforeFork
  <2>4. CASE Goto("parent", "pause_kill", "paused_kill")
    <3>1. ParentMoved("pause_kill", "paused_kill") /\ SignalsKept /\ UNCHANGED <<mask, timer>>
      BY <1>0, <2>4, ParentMoves DEF Goto, SignalsKept
    <3> QED BY <1>0, <1>k, <3>1
            DEF ParentMoved, SignalsKept, InSigactionValue, Waited, NoChildYet, BeforeFork
  <2>5. CASE Goto("parent", "pause_queue", "paused_queue")
    <3>1. ParentMoved("pause_queue", "paused_queue") /\ SignalsKept /\ UNCHANGED <<mask, timer>>
      BY <1>0, <2>5, ParentMoves DEF Goto, SignalsKept
    <3> QED BY <1>0, <1>k, <3>1
            DEF ParentMoved, SignalsKept, InSigactionValue, Waited, NoChildYet, BeforeFork
  <2>6. CASE Wait
    <3>1. /\ ParentMoved("wait", "over") /\ pc["child"] = "exit"
          /\ SignalsKept /\ UNCHANGED <<mask, timer>>
      BY <1>0, <2>6, Waits
    <3> QED BY <1>0, <1>k, <3>1
            DEF ParentMoved, SignalsKept, InSigactionValue, Waited, NoChildYet, BeforeFork
  <2> QED BY <1>1, <2>1, <2>2, <2>3, <2>4, <2>5, <2>6 DEF sigaction_value_parent
<1>2. ASSUME NEW s \in Signals, Deliver(s) PROVE Goal'
  <2>1. s = TERM /\ Delivered(TERM)
    <3>1. Delivered(s) /\ pending[s] # <<>>
      BY <1>0, <1>2, Delivers DEF Delivered
    <3> QED BY <1>0, <3>1 DEF NotUsed, Signals
  <2>2. UNCHANGED <<pc, mask, timer>> /\ pc["parent"] # "over" /\ pending[TERM] # <<>>
    BY <1>0, <2>1 DEF Delivered, Ended
  <2>3. PICK by \in {"timer", "kill", "sigqueue"} : Pending(by)
    BY <1>0, <2>2 DEF InSigactionValue
  <2>4. /\ pending'[TERM] = <<>> /\ \A x : Caught(x)' <=> Caught(x) \/ x = by
        /\ \A k \in DOMAIN handlers' :
             (k \in DOMAIN handlers /\ handlers'[k].by = handlers[k].by) \/ handlers'[k].by = by
    BY <1>0, <2>1, <2>3, DeliveredFrom
  <2>5. \A x : ~Pending(x)'
    BY <2>4 DEF Pending
  <2>6. \A x \in {"timer", "kill", "sigqueue"} : Pending(x) => x = by
    BY <2>3 DEF Pending
  <2>7. CASE pc["parent"] \in BeforeFork
    <3>1. by = "timer"
      BY <1>0, <2>2, <2>6, <2>7 DEF InSigactionValue
    <3> QED BY <1>0, <2>2, <2>4, <2>5, <2>7, <3>1
            DEF InSigactionValue, Waited, NoChildYet, BeforeFork
  <2>8. CASE pc["parent"] \notin BeforeFork
    <3>1. \/ by = "kill" /\ ~Caught("kill") /\ pc["parent"] \in {"pause_kill", "paused_kill"}
          \/ by = "sigqueue" /\ Caught("kill") /\ pc["child"] = "exit"
      BY <1>0, <2>2, <2>3, <2>6, <2>8 DEF InSigactionValue
    <3> QED BY <1>0, <2>2, <2>3, <2>4, <2>5, <2>8, <3>1
            DEF InSigactionValue, Waited, NoChildYet
  <2> QED BY <2>7, <2>8
<1>3. CASE EndHandler
  <2>1. Returned
    BY <1>0, <1>3, Returns
  <2>2. /\ \A x : (Caught(x)' <=> Caught(x)) /\ (Pending(x)' <=> Pending(x))
        /\ pending'[TERM] = pending[TERM]
        /\ handlers # <<>> /\ timer' \in {timer, "deleted"}
        /\ \A k \in DOMAIN handlers' : k \in DOMAIN handlers /\ handlers'[k].by = handlers[k].by
    BY <2>1 DEF Returned, Caught, Pending
  <2>3. pc["parent"] \in BeforeFork => timer' = "deleted"
    BY <1>0, <2>1 DEF Returned, InSigactionValue
  <2>4. /\ pc'["child"] = pc["child"] /\ mask' = mask
        /\ \/ pc'["parent"] = pc["parent"]
           \/ /\ handlers' = <<>>
              /\ \/ pc["parent"] = "paused_timer" /\ pc'["parent"] = "fork"
                 \/ pc["parent"] = "paused_kill" /\ pc'["parent"] = "pause_queue"
                 \/ pc["parent"] = "paused_queue" /\ pc'["parent"] = "wait"
                 \/ pc["parent"] = "wait" /\ pc'["parent"] = "over"
    BY <1>0, <2>1, ComesAfter DEF Returned, InSigactionValue, BeforeFork, Processes
  <2> QED BY <1>0, <2>2, <2>3, <2>4 DEF InSigactionValue, Waited, NoChildYet, BeforeFork
<1>4. CASE sigaction_value_child
  <2>1. CASE Kill("child", "kill", "sigqueue", TERM, "kill")
    <3>1. /\ ChildMoved("kill", "sigqueue") /\ UNCHANGED <<mask, handlers, caught, timer>>
          /\ \/ pending'[TERM] = Append(pending[TERM], "kill")
             \/ pc["parent"] = "over" \/ pending[TERM] # <<>>
      BY <1>0, <2>1, ChildSends DEF Signals, Senders
    <3>2. /\ pending[TERM] = <<>> /\ pc["parent"] \notin BeforeFork \cup {"over"}
      BY <1>0, <3>1 DEF ChildMoved, InSigactionValue, Waited, NoChildYet
    <3>3. pending'[TERM] = <<"kill">>
      BY <3>1, <3>2
    <3>4. \A x : (Caught(x)' <=> Caught(x)) /\ (Pending(x)' <=> x = "kill") /\ ~Pending(x)
      BY <3>1, <3>2, <3>3 DEF Caught, Pending
    <3> QED BY <1>0, <3>1, <3>2, <3>3, <3>4 DEF ChildMoved, InSigactionValue, Waited, NoChildYet
  <2>2. CASE Kill("child", "sigqueue", "exit", TERM, "sigqueue")
    <3>1. /\ ChildMoved("sigqueue", "exit") /\ UNCHANGED <<mask, handlers, caught, timer>>
          /\ \/ pending[TERM] = <<>> /\ pending'[TERM] = Append(pending[TERM], "sigqueue")
             \/ pc["parent"] = "over" /\ pending'[TERM] = pending[TERM]
             \/ pending[TERM] # <<>> /\ pending'[TERM] = pending[TERM]
      BY <1>0, <2>2, ChildSends DEF Signals, Senders
    <3>2. pc["parent"] \notin BeforeFork \cup {"over"}
      BY <1>0, <3>1 DEF ChildMoved, Waited, NoChildYet
    <3>3. \A x : Caught(x)' <=> Caught(x)
      BY <3>1 DEF Caught
    <3>4. CASE pending[TERM] = <<>>
      <4>1. pending'[TERM] = <<"sigqueue">>
        BY <3>1, <3>2, <3>4
      <4>2. \A x : (Pending(x)' <=> x = "sigqueue") /\ ~Pending(x)
        BY <3>4, <4>1 DEF Pending
      <4> QED BY <1>0, <3>1, <3>2, <3>3, <4>1, <4>2
              DEF ChildMoved, InSigactionValue, Waited, NoChildYet
    <3>5. CASE pending[TERM] # <<>>
      <4>1. pending'[TERM] = pending[TERM] /\ \A x : Pending(x)' <=> Pending(x)
        BY <3>1, <3>5 DEF Pending
      <4> QED BY <1>0, <3>1, <3>2, <3>3, <4>1 DEF ChildMoved, InSigactionValue, Waited, NoChildYet
    <3> QED BY <3>4, <3>5
  <2> QED BY <1>4, <2>1, <2>2 DEF sigaction_value_child
<1>5. CASE Expire
  <2>1. /\ timer = "armed" /\ UNCHANGED <<pc, mask, handlers, caught, timer>>
        /\ pending[TERM] = <<>> /\ pending'[TERM] = <<"timer">>
    BY <1>0, <1>5, Expires DEF Expired, Types, Signals
  <2>2. \A x : (Caught(x)' <=> Caught(x)) /\ (Pending(x)' <=> x = "timer")
    BY <2>1 DEF Caught, Pending
  <2> QED BY <1>0, <2>1, <2>2 DEF InSigactionValue, Waited, NoChildYet, BeforeFork
<1> QED BY <1>1, <1>2, <1>3, <1>4, <1>5 DEF Next, Parent, Child, Handling, Is

-----------------------------------------------------------------------------
(* The inductive invariant and what follows from it *)

LEMMA InitIInv == Init => IInv
<1> SUFFICES ASSUME Init PROVE IInv
  OBVIOUS
<1>1. /\ \A s \in Signals : pending[s] = <<>> /\ caught[s] = <<>>
      /\ handlers = <<>> /\ i = 0 /\ timer = "off" /\ program \in Programs
      /\ DOMAIN pc = Processes /\ pc["child"] = "none"
      /\ pc["parent"] = IF Is("sigaction_value") THEN "timer_settime" ELSE "fork"
      /\ mask = IF Is("sigprocmask") THEN {"SIGTERM"} ELSE {}
  <2>1. /\ DOMAIN pc = Processes /\ pc["child"] = "none"
        /\ pc["parent"] = IF Is("sigaction_value") THEN "timer_settime" ELSE "fork"
    BY DEF Init, Processes
  <2>2. \A s \in Signals : pending[s] = <<>> /\ caught[s] = <<>>
    BY DEF Init
  <2> QED BY <2>1, <2>2 DEF Init
<1>2. Types
  <2>1. <<>> \in Seq(Senders) /\ <<>> \in Seq([sig : Signals, by : Senders])
    BY EmptySeq
  <2>2. pending \in [Signals -> Seq(Senders)] /\ caught \in [Signals -> Seq(Senders)]
    BY <2>1 DEF Init
  <2>3. i \in 0..Copies
    BY <1>1, CopiesAssumption
  <2> QED BY <1>1, <2>1, <2>2, <2>3 DEF Types, ParentLabels, ChildLabels, Signals
<1>3. NormalOnce /\ NoReentry /\ HandlersHaveCaught /\ OwnSignals
  BY <1>1, EmptySeq DEF NormalOnce, NoReentry, HandlersHaveCaught, OwnSignals, NotUsed, Signals
<1>4. Waited /\ NoChildYet
  BY <1>1 DEF Waited, NoChildYet
<1>5. /\ Is("signal") => InSignal
      /\ Is("sigaction") => InSigaction
      /\ Is("sigprocmask") => InSigprocmask
  BY <1>1 DEF InSignal, InSigaction, InSigprocmask, Is, Only, Sent, Signals
<1>6. Is("sigaction_multiple") => InSigactionMultiple
  <2>1. \A s \in Signals : NCaught(s) = 0 /\ NPending(s) = 0
    BY <1>1, EmptySeq DEF NCaught, NPending
  <2>2. Is("sigaction_multiple") => pc["child"] = "none" /\ pc["parent"] = "fork" /\ mask = {}
    BY <1>1 DEF Is
  <2>3. SentUsr1 = 0 /\ SentRtmin = 0
    BY <1>1 DEF SentUsr1, SentRtmin
  <2> QED BY <1>1, <2>1, <2>2, <2>3 DEF InSigactionMultiple, Signals
<1>7. Is("sigaction_value") => InSigactionValue
  BY <1>1 DEF InSigactionValue, BeforeFork, Caught, Pending, Is, Signals
<1> QED BY <1>2, <1>3, <1>4, <1>5, <1>6, <1>7 DEF IInv, Common

LEMMA Inductive == IInv /\ [Next]_vars => IInv'
<1> SUFFICES ASSUME IInv, [Next]_vars PROVE IInv'
  OBVIOUS
<1>1. CASE Next
  <2>1. \/ Is("signal") \/ Is("sigaction") \/ Is("sigprocmask")
        \/ Is("sigaction_multiple") \/ Is("sigaction_value")
    BY ProgramsAssumption DEF IInv, Common, Types, Is
  <2>2. program' = program
    BY <1>1 DEF Next
  <2>3. Common'
    BY <1>1, CommonInductive DEF IInv
  <2> QED BY <1>1, <2>1, <2>2, <2>3, SignalInductive, SigactionInductive, SigprocmaskInductive,
             SigactionMultipleInductive, SigactionValueInductive DEF IInv, Is
<1>2. CASE UNCHANGED vars
  <2>1. /\ pc' = pc /\ program' = program /\ pending' = pending /\ mask' = mask
        /\ handlers' = handlers /\ caught' = caught /\ i' = i /\ timer' = timer
    BY <1>2 DEF vars
  <2>2. Common'
    BY <2>1 DEF IInv, Common, Types, NormalOnce, NoReentry, HandlersHaveCaught, OwnSignals,
                NotUsed, Ended, receiver, Is
  <2>3. InSignal' = InSignal /\ InSigaction' = InSigaction /\ InSigprocmask' = InSigprocmask
    BY <2>1 DEF InSignal, InSigaction, InSigprocmask, Sent, Only
  <2>4. InSigactionMultiple' = InSigactionMultiple
    BY <2>1 DEF InSigactionMultiple, SentUsr1, SentRtmin, NCaught, NPending, Sent
  <2>5. InSigactionValue' = InSigactionValue
    BY <2>1 DEF InSigactionValue, Caught, Pending
  <2> QED BY <2>1, <2>2, <2>3, <2>4, <2>5 DEF IInv, Is, Waited, NoChildYet
<1> QED BY <1>1, <1>2

LEMMA Invariance == Spec => []IInv
BY InitIInv, Inductive, PTL DEF Spec

\* The types: no signal is pending or handled more often than it can be.
THEOREM TypeCorrect == Spec => []TypeOK
<1>1. IInv => TypeOK
  <2> SUFFICES ASSUME IInv PROVE TypeOK
    OBVIOUS
  <2>1. Len(pending["SIGRTMIN"]) <= Copies
    <3>1. CASE Is("sigaction_multiple")
      <4>1. NCaught("SIGRTMIN") + NPending("SIGRTMIN") = SentRtmin
        BY <3>1 DEF IInv, InSigactionMultiple
      <4>2. SentRtmin \in {i, i - 1} /\ i \in 0..Copies /\ Copies \in Nat
        BY CopiesAssumption DEF SentRtmin, IInv, Common, Types
      <4>3. pending["SIGRTMIN"] \in Seq(Senders) /\ caught["SIGRTMIN"] \in Seq(Senders)
        BY DEF IInv, Common, Types, Signals
      <4>4. NCaught("SIGRTMIN") \in Nat /\ NPending("SIGRTMIN") \in Nat
        BY <4>3, LenProperties DEF NCaught, NPending
      <4>5. NPending("SIGRTMIN") <= Copies
        BY <4>1, <4>2, <4>4
      <4> QED BY <4>5 DEF NPending
    <3>2. CASE ~Is("sigaction_multiple")
      <4>1. pending["SIGRTMIN"] = <<>>
        BY <3>2 DEF IInv, Common, OwnSignals, NotUsed
      <4> QED BY <4>1, CopiesAssumption, EmptySeq
    <3> QED BY <3>1, <3>2
  <2> QED BY <2>1 DEF TypeOK, IInv, Common, Types, NormalOnce, NoReentry, Signals
<1> QED BY <1>1, Invariance, PTL

\* A blocked signal waits until it is released and is not forgotten.
THEOREM HeldBackHolds == Spec => []HeldBack
<1>1. IInv => HeldBack
  BY DEF IInv, HeldBack, InSigprocmask, InSigaction, Only
<1> QED BY <1>1, Invariance, PTL

\* When the parent is over, so is its child; and then every real-time signal of
\* sigaction_multiple.c, however many there are, has been handled, in order.
THEOREM EverySignalHandledHolds == Spec => []EverySignalHandled
<1>1. IInv => EverySignalHandled
  <2> SUFFICES ASSUME IInv, pc["parent"] = "over" PROVE
        /\ pc["child"] = "exit"
        /\ Is("sigaction_multiple") =>
             /\ caught["SIGRTMIN"] = [k \in 1..Copies |-> k]
             /\ Len(caught["SIGUSR1"]) \in 1..Copies
    BY DEF EverySignalHandled
  <2>1. pc["child"] = "exit"
    BY DEF IInv, Waited
  <2>2. ASSUME Is("sigaction_multiple")
        PROVE  /\ caught["SIGRTMIN"] = [k \in 1..Copies |-> k]
               /\ Len(caught["SIGUSR1"]) \in 1..Copies
    <3>1. /\ i = Copies /\ SentRtmin = Copies /\ SentUsr1 = Copies
          /\ pending["SIGRTMIN"] = <<>> /\ pending["SIGUSR1"] = <<>>
          /\ NCaught("SIGRTMIN") + NPending("SIGRTMIN") = SentRtmin
          /\ NCaught("SIGUSR1") + NPending("SIGUSR1") <= SentUsr1
          /\ \A k \in DOMAIN caught["SIGRTMIN"] : caught["SIGRTMIN"][k] = k
          /\ SentUsr1 >= 1 => caught["SIGUSR1"] # <<>>
      BY <2>1, <2>2 DEF IInv, InSigactionMultiple, SentRtmin, SentUsr1, Sent
    <3>2. caught["SIGRTMIN"] \in Seq(Senders) /\ caught["SIGUSR1"] \in Seq(Senders)
      BY DEF IInv, Common, Types, Signals
    <3>3. /\ NPending("SIGRTMIN") = 0 /\ NPending("SIGUSR1") = 0
          /\ NCaught("SIGRTMIN") \in Nat /\ NCaught("SIGUSR1") \in Nat
          /\ caught["SIGUSR1"] # <<>> => NCaught("SIGUSR1") # 0
          /\ caught["SIGRTMIN"] \in [1..NCaught("SIGRTMIN") -> Senders]
      BY <3>1, <3>2, EmptySeq, LenProperties DEF NCaught, NPending
    <3>4. Copies \in Nat /\ Copies >= 1
      BY CopiesAssumption
    <3>5. NCaught("SIGRTMIN") = Copies /\ NCaught("SIGUSR1") \in 1..Copies
      BY <3>1, <3>3, <3>4
    <3>6. caught["SIGRTMIN"] = [k \in 1..Copies |-> k]
      BY <3>1, <3>3, <3>5
    <3> QED BY <3>5, <3>6 DEF NCaught
  <2> QED BY <2>1, <2>2
<1> QED BY <1>1, Invariance, PTL
=============================================================================
