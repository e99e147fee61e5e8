-------------------------------- MODULE Jelek -------------------------------
(***************************************************************************)
(* The programs on signals, Anyag/gy2: signal.c, sigaction.c, sigprocmask.c, *)
(* sigaction_multiple.c and sigaction_value.c (4.Gyak has the first two as  *)
(* well).  In each of them one of parent and child sends signals, and the   *)
(* other one, the receiver, handles them and waits for them.  A behaviour is *)
(* one run of one of the programs.                                          *)
(***************************************************************************)
EXTENDS Integers, SequencesExt

CONSTANTS
  Programs,    \* the programs to run
  Copies       \* the signals of each kind in sigaction_multiple.c (5 there)

ASSUME ProgramsAssumption ==
  Programs \subseteq {"signal", "sigaction", "sigprocmask", "sigaction_multiple", "sigaction_value"}
ASSUME CopiesAssumption == Copies \in Nat \ {0}

Signals == {"SIGTERM", "SIGUSR1", "SIGRTMIN"}
Processes == {"parent", "child"}

VARIABLES
  program,    \* which of the programs it is
  pc,         \* where each process is
  pending,    \* by signal: what it was sent by, for each time it is pending
  mask,       \* the signals the receiver blocks
  handlers,   \* the handlers that run, the innermost one last
  caught,     \* by signal: what the handled ones were sent by
  i,          \* the loop of sigaction_multiple.c
  timer,      \* the timer of sigaction_value.c
  inVain      \* history: the signals that woke nobody, because they merged
              \* with a pending one or the receiver was not waiting

vars == <<program, pc, pending, mask, handlers, caught, i, timer, inVain>>

Is(p) == program = p
receiver == IF Is("signal") THEN "child" ELSE "parent"
Ended(p) == pc[p] \in {"exit", "over"}

Init ==
  /\ program \in Programs
  /\ pc = [parent |-> IF Is("sigaction_value") THEN "timer_settime" ELSE "fork", child |-> "none"]
  /\ pending = [s \in Signals |-> <<>>] /\ caught = [s \in Signals |-> <<>>]
  /\ mask = IF Is("sigprocmask") THEN {"SIGTERM"} ELSE {}
  /\ handlers = <<>> /\ i = 0 /\ timer = "off" /\ inVain = {}

-----------------------------------------------------------------------------
(* Signals *)

\* A slip: a signal that is pending already is queued once more.
SendQueued(s, by) ==
  /\ pending' = [pending EXCEPT ![s] = Append(@, by)]
  /\ UNCHANGED inVain

\* kill(), sigqueue(), or a timer that expires.  Only a real-time signal can be
\* pending more than once.
Send(s, by) ==
  IF s = "SIGRTMIN" \/ pending[s] = <<>>
    THEN pending' = [pending EXCEPT ![s] = Append(@, by)] /\ UNCHANGED inVain
    ELSE inVain' = inVain \cup {<<s, by>>} /\ UNCHANGED pending

Runs(s) == \E k \in DOMAIN handlers : handlers[k].sig = s
Deliverable(s) == pending[s] # <<>> /\ s \notin mask /\ ~Runs(s)

\* pause() and sigsuspend() that have not returned, and what comes after them
After == [paused |-> "exit", paused_usr1 |-> "unblock", paused_timer |-> "fork",
          paused_kill |-> "pause_queue", paused_queue |-> "wait", suspended |-> "wait"]
Waiting == pc[receiver] \in DOMAIN After

\* The handler of s is called; while it runs s is blocked.
Deliver(s) ==
  /\ Deliverable(s) /\ ~Ended(receiver)
  /\ handlers' = Append(handlers, [sig |-> s, by |-> Head(pending[s])])
  /\ pending' = [pending EXCEPT ![s] = Tail(@)]
  /\ caught' = [caught EXCEPT ![s] = Append(@, Head(pending[s]))]
  /\ inVain' = IF Waiting THEN inVain ELSE inVain \cup {<<s, Head(pending[s])>>}
  /\ UNCHANGED <<pc, mask, i, timer>>

\* A slip: SA_RESTART is forgotten.
RestartsNever == FALSE

\* wait() goes on after a handler: signal() does that, or SA_RESTART.
Restarts == program \in {"signal", "sigprocmask", "sigaction_multiple"}

\* The handler returns; that of sigaction_value.c has deleted the timer.  With
\* the last handler pause() and sigsuspend() return, and wait() may.
EndHandler ==
  /\ handlers # <<>>
  /\ handlers' = Front(handlers)
  /\ timer' = IF Is("sigaction_value") /\ Last(handlers).by = "timer" THEN "deleted" ELSE timer
  /\ IF Len(handlers) = 1 /\ Waiting
       THEN /\ pc' = [pc EXCEPT ![receiver] = After[@]]
            /\ mask' = IF pc[receiver] = "suspended" THEN {} ELSE mask
       ELSE /\ \/ UNCHANGED pc
               \/ /\ Len(handlers) = 1 /\ pc[receiver] = "wait" /\ ~Restarts
                  /\ pc' = [pc EXCEPT ![receiver] = "over"]
            /\ UNCHANGED mask
  /\ UNCHANGED <<pending, caught, i, inVain>>

-----------------------------------------------------------------------------
(* Steps: the receiver takes none before it has handled what can be handled *)

Ready(p) == p = receiver => handlers = <<>> /\ \A s \in Signals : ~Deliverable(s)

Step(p, from, to) == Ready(p) /\ pc[p] = from /\ pc' = [pc EXCEPT ![p] = to]

Goto(p, from, to) ==
  Step(p, from, to) /\ UNCHANGED <<pending, mask, handlers, caught, i, timer, inVain>>

\* A signal to the receiver, if it is still there
Kill(p, from, to, s, by) ==
  /\ Step(p, from, to)
  /\ IF Ended(receiver) THEN UNCHANGED <<pending, inVain>> ELSE Send(s, by)
  /\ UNCHANGED <<mask, handlers, caught, i, timer>>

\* fork(): when it fails the parent takes the child's branch, and its signals
\* go to the process that has started it.
Fork(parent, child) ==
  /\ Ready("parent") /\ pc["parent"] = "fork"
  /\ \/ pc' = [p \in Processes |-> IF p = "parent" THEN parent ELSE child]
     \/ pc' = [pc EXCEPT !["parent"] = "as child"]
  /\ UNCHANGED <<pending, mask, handlers, caught, i, timer, inVain>>

Wait == pc["child"] = "exit" /\ Goto("parent", "wait", "over")

-----------------------------------------------------------------------------
(* The programs.  sleep() promises nothing and is left out. *)

signal_parent == Fork("kill", "pause") \/ Kill("parent", "kill", "wait", "SIGTERM", "kill") \/ Wait
signal_child == Goto("child", "pause", "paused")

\* A slip: SIGTERM is not taken out of the full set.
sigsuspendFull ==
  /\ Step("parent", "sigsuspend", "suspended")
  /\ mask' = Signals
  /\ UNCHANGED <<pending, handlers, caught, i, timer, inVain>>

\* A slip: the set stays empty.
sigsuspendEmpty ==
  /\ Step("parent", "sigsuspend", "suspended")
  /\ UNCHANGED <<mask, pending, handlers, caught, i, timer, inVain>>

\* The mask for the time of the call: every signal but SIGTERM
sigsuspend ==
  /\ Step("parent", "sigsuspend", "suspended")
  /\ mask' = Signals \ {"SIGTERM"}
  /\ UNCHANGED <<pending, handlers, caught, i, timer, inVain>>

sigaction_parent == Fork("sigsuspend", "kill_usr1") \/ sigsuspend \/ Wait
sigaction_child ==
  \/ Kill("child", "kill_usr1", "kill_term", "SIGUSR1", "kill")
  \/ Kill("child", "kill_term", "exit", "SIGTERM", "kill")

\* sigprocmask(SIG_UNBLOCK)
Unblock ==
  /\ Step("parent", "unblock", "wait")
  /\ mask' = {}
  /\ UNCHANGED <<pending, handlers, caught, i, timer, inVain>>

sigprocmask_parent ==
  Fork("pause_usr1", "kill_term") \/ Goto("parent", "pause_usr1", "paused_usr1") \/ Unblock \/ Wait
sigprocmask_child ==
  \/ Kill("child", "kill_term", "kill_usr1", "SIGTERM", "kill")
  \/ Kill("child", "kill_usr1", "exit", "SIGUSR1", "kill")

\* for (i=0;i<5;i++) { kill(SIGUSR1); kill(SIGRTMIN); }
For ==
  /\ IF i < Copies THEN Step("child", "for", "kill_usr1") /\ i' = i + 1
                   ELSE Step("child", "for", "exit") /\ UNCHANGED i
  /\ UNCHANGED <<pending, mask, handlers, caught, timer, inVain>>

sigaction_multiple_parent == Fork("wait", "for") \/ Wait
sigaction_multiple_child ==
  \/ For
  \/ Kill("child", "kill_usr1", "kill_rtmin", "SIGUSR1", i)
  \/ Kill("child", "kill_rtmin", "for", "SIGRTMIN", i)

timer_settime ==
  /\ Step("parent", "timer_settime", "pause_timer")
  /\ timer' = "armed"
  /\ UNCHANGED <<pending, mask, handlers, caught, i, inVain>>

sigaction_value_parent ==
  \/ timer_settime
  \/ Goto("parent", "pause_timer", "paused_timer")
  \/ Fork("pause_kill", "kill")
  \/ Goto("parent", "pause_kill", "paused_kill")
  \/ Goto("parent", "pause_queue", "paused_queue")
  \/ Wait
sigaction_value_child ==
  \/ Kill("child", "kill", "sigqueue", "SIGTERM", "kill")
  \/ Kill("child", "sigqueue", "exit", "SIGTERM", "sigqueue")

\* The timer expires every second; one more while it is pending changes nothing.
Expire ==
  /\ timer = "armed" /\ pending["SIGTERM"] = <<>>
  /\ Send("SIGTERM", "timer")
  /\ UNCHANGED <<pc, mask, handlers, caught, i, timer>>

Parent ==
  \/ Is("signal") /\ signal_parent
  \/ Is("sigaction") /\ sigaction_parent
  \/ Is("sigprocmask") /\ sigprocmask_parent
  \/ Is("sigaction_multiple") /\ sigaction_multiple_parent
  \/ Is("sigaction_value") /\ sigaction_value_parent

Child ==
  \/ Is("signal") /\ signal_child
  \/ Is("sigaction") /\ sigaction_child
  \/ Is("sigprocmask") /\ sigprocmask_child
  \/ Is("sigaction_multiple") /\ sigaction_multiple_child
  \/ Is("sigaction_value") /\ sigaction_value_child

Handling == (\E s \in Signals : Deliver(s)) \/ EndHandler

Next == (Parent \/ Child \/ Handling \/ Expire) /\ UNCHANGED program

\* The scheduler runs both processes, signals arrive, and the timer expires.
Fairness ==
  /\ WF_vars(Parent /\ UNCHANGED program)
  /\ WF_vars(Child /\ UNCHANGED program)
  /\ WF_vars(Handling /\ UNCHANGED program)
  /\ WF_vars(Expire /\ UNCHANGED program)

Spec == Init /\ [][Next]_vars /\ Fairness

-----------------------------------------------------------------------------
(* Properties *)

TypeOK ==
  /\ program \in Programs /\ DOMAIN pc = Processes
  /\ mask \subseteq Signals /\ i \in 0..Copies /\ timer \in {"off", "armed", "deleted"}
  /\ \A s \in Signals : Len(pending[s]) <= IF s = "SIGRTMIN" THEN Copies ELSE 1
  /\ \A j, k \in DOMAIN handlers : handlers[j].sig = handlers[k].sig => j = k

\* A blocked signal waits until it is released and is not forgotten.  In
\* sigprocmask.c SIGTERM is sent first and handled last, after the pause() that
\* SIGUSR1 has ended; in sigaction.c nothing but SIGTERM ends the sigsuspend().
HeldBack ==
  /\ Is("sigprocmask") =>
       /\ caught["SIGTERM"] # <<>> => caught["SIGUSR1"] # <<>> /\ pc["parent"] \in {"wait", "over"}
       /\ pc["parent"] = "over" => caught["SIGTERM"] # <<>>
  /\ Is("sigaction") =>
       /\ pc["parent"] = "suspended" => \A k \in DOMAIN handlers : handlers[k].sig = "SIGTERM"
       /\ pc["parent"] \in {"wait", "over"} => caught["SIGTERM"] # <<>>
       /\ pc["parent"] = "over" => caught["SIGUSR1"] # <<>>

\* When the parent is over, so is its child, although signals interrupt the
\* wait.  By then the parent of sigaction_multiple.c has handled each real-time
\* signal, in the order they were sent, and at least one of the normal ones.
EverySignalHandled ==
  pc["parent"] = "over" =>
    /\ pc["child"] = "exit"
    /\ Is("sigaction_multiple") =>
         /\ caught["SIGRTMIN"] = [k \in 1..Copies |-> k]
         /\ Len(caught["SIGUSR1"]) \in 1..Copies

\* The ways a program waits for ever: each pause() or sigsuspend() needs a
\* signal of its own, and too many of them have come in vain.
NeverWoken ==
  /\ Waiting
  /\ CASE pc[receiver] \in {"paused", "suspended"} -> <<"SIGTERM", "kill">> \in inVain
       [] pc[receiver] = "paused_usr1" -> <<"SIGUSR1", "kill">> \in inVain
       [] pc[receiver] = "paused_timer" -> <<"SIGTERM", "timer">> \in inVain
       [] pc[receiver] = "paused_kill" ->
            {<<"SIGTERM", "kill">>, <<"SIGTERM", "sigqueue">>} \subseteq inVain
       [] OTHER -> {<<"SIGTERM", "kill">>, <<"SIGTERM", "sigqueue">>} \cap inVain # {}

\* Every program ends, with both its processes, unless the fork has failed or
\* a signal came before the receiver waited for it, or merged with another.
Ends == <>((Ended("parent") /\ Ended("child")) \/ NeverWoken \/ pc["parent"] = "as child")
=============================================================================
