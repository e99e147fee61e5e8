# ELTE Operating Systems: a verification project

The repository is the material of an operating systems course: small C programs in
which a parent and its children share memory, semaphores, message queues, pipes, files
and signals, and the solutions of several exams ("ZH"). Each program is a few processes
and a protocol between them, the kind of code whose mistakes depend on the schedule, on
a failed call or on what an interrupted run has left in the system, and which no test
reaches. This directory holds TLA+ models of these programs, the TLC configurations that
check them, and proofs, checked by TLAPS, that every safety invariant of the runs holds for every
value of the constants.

Contents: 1 the system, 2 the modules, 3 the runs, 4 fairness, 5 what the runs refute,
6 the proofs, 7 what is abstracted, 8 known and not run, 9 not modelled, 10 the plan.

## 1. The system

There is no single program. A *component* is a program, or a group of programs with one
idea. Within a program the processes interact through the objects listed under "state";
programs do not meet, because each makes its keys from its own path (`ftok(argv[0], ..)`)
or uses a name of its own.

| component | processes | state they share | operations | what is hard | correct when |
|---|---|---|---|---|---|
| Baker and customer, `Anyag/gy6/pek_vasarlo.c` | parent, `pek`, `vasarlo` | `s[0]` loaves, `s[1]` go-on flag; named semaphores `szabad`, `ures`, `tele` | put and take a loaf, key press, wait, unlink | two processes change `s[0]`; names outlive an interrupted run; end of the children | no lost update, shelf within `0..N`, no mutual blocking, both end |
| Producer and consumer, `Anyag/gy6/termelo_fogyaszto_systemv.c` | parent, child | System V semaphores `free`, `empty`, `full` | ten rounds each, removal | removal while in use, initial values, a number printed from a semaphore another process changes | store within bounds, nothing left over, ends in every schedule |
| Quiz show, `ZH Gyak/Álarcos énekes/*/vetelkedo.c` | host, two players | four pipes, a queue, a semaphore, two answers in shared memory | question, answers, guess, verdict, print | merged signals, host waits for one of two players, old messages | this game's answers are judged, each as that player's |
| Parachute jump, `ZH Gyak/Ejtoernyo/ejtoernyo.c` | instructor, student | pipe, queue, semaphore, points | count to three, question, answer, points | one queue and one type for both directions | the student never counts ahead; the answer is the instructor's |
| Teams meeting, `ZH Gyak/Teams/teams.c` | Teams, teacher, student | two pipes, queue, semaphore, a text | greet, question passed on, answer | merged signals; `sleep(2)` instead of waiting | an answer follows its question; nothing removed while in use |
| Press conference, `ZH Gyak/Tajekoztato/{19,20}.Csoport/tajekoztato1.c` | officer, police, medical | two pipes, queue, semaphore, a text | question, answer, comment, data | as above, and a wait for one of two children | question before answer before comment; the data is there at the end |
| Election, `ZH Gyak/Szavazas/szavazas.c` | president, checker, stamper | three pipes | ids, judgements, counts, votes | items of two sizes in one pipe, full pipes, zero voters, failing `fopen` | every voter and every vote is counted |
| Exercises on pipes, `Gyakorlas/*.c` | parent, one or two children | pipes | pass on numbers, count together, send structures | sizes and counts that travel ahead of the data | complete, in order, with the right sizes |
| Text under a semaphore, `7. Gyak/szemafor*.c`, `Anyag/gy6/pos_szemafor.c` | parent, child | shared memory, one semaphore | write, read, measure, exit | three accesses that must belong together; a POSIX name that keeps its value | the child reads what was written for it |
| Messages, `6. Gyak/uzenet*.c` | parent, child | one queue | send and receive, one way and both ways | messages of an interrupted run | nobody takes its own message |
| Locked log file, `Anyag/gy1/fcntl.c`, `fcntl_0.c` | parent, child | a file, its offset, a lock | write a line character by character | interleaved writes, a lock not given back | whole lines with the lock, nothing lost without |
| Signals, `Anyag/gy2`, `4.Gyak` | parent, child | pending signals, masks, a timer | send, handle, block, wait | signals that merge or come before `pause()` | blocked signals are held back; real-time ones all arrive |
| Driver records, `Beadando Segitseg/1. Beadando/struktura.c` | one, started again and again | a text file, `id` | read the file, add a record, menu | ids across restarts, what `fscanf` makes of a record, lines torn by a full disk | ids increase; what was written is read back |
| Pipes and FIFOs, `5.Gyak`, `Anyag/gy3` | parent, child | a pipe or a FIFO, the ends each process holds | open, write, read, close, poll, select | writes that run together, reads that cut them, end of file, writing without a reader, a timeout that races the write | the reader sees what was written; the name of the FIFO is removed |
| POSIX message queue, `6. Gyak/mq_uzenet.c` | parent, child | queue, notification | send, notify, receive | wait for an uninitialised pid, interrupted by the notification | the message is there when it is received |
| Shared memory with sleep, `6. Gyak/osztmem*.c` | parent, child | shared memory | write, read, remove | nothing but `sleep(1)` orders them | the memory is there until the child has read it |
| Files, `1.Gyak/file.c`, `fopen_readwrite.c`, `feladat.c`, `open_fopen.c` | one | two files, a position | read to the end, write | the end of the input is tested in five ways; read errors, full disk | what is written is what was read; the loops end |
| Processes; arguments, directories, strings (`1.Gyak`-`3.Gyak`, `gy0`, `gy1`) | one to three | none | fork, exec, system, print | nothing shared | - |

All but the last are modelled, the signals and the files in part; section 9 says why the
others are not. The hazards, each at its line and with the
properties that cover it, are the list `hazards` of PROJECT.json.

## 2. The modules

The labels of `pc` are the points between two steps of a process; a step is one system
call or one access to shared memory, with the assignments that belong to it. Definitions
keep the names of the functions and variables of the C code where they have one, and
PROJECT.json maps every definition to its lines. A definition whose comment starts with "A
slip:" is not part of the model: it is a wrong variant of the definition after it, and the
property it is listed with in PROJECT.json notices it.

**Polc** is the abstract shelf: `keszlet` items, `0..N`, put one, take one, or empty
the shelf for a new run. Two programs implement it.

**PekVasarlo** models `pek_vasarlo.c`. `pek()` and `vasarlo()` are one loop with two
parameters (`Before`, `After`, `Delta`). `s[0]+=1` is `Load` and `Store`, so that an update
can get lost. `Start` opens the semaphores as `sem_open(O_CREAT)` does: an existing one
keeps its value. `Interrupt` is Ctrl-C, which ends the processes and unlinks nothing. A
failed fork lets the parent take the worker's branch. `clean` is a history variable: this run
has created its semaphores itself. `ShelfSpec` says that `s0` implements Polc.

**TermeloFogyaszto** models `termelo_fogyaszto_systemv.c`: the loops `while (i++ != 10)`,
`semop` that fails silently on a removed semaphore, `SETVAL` at each start, the three
removals one by one. `StoreSpec`: the
products announced by "Produced" and not yet by "Consumer get" implement Polc.

**Zh** is what the exam programs have in common, and each of its operators is a step of one
process: `Fork` with its failure (the wrapper exits), `Kill` and `Deliver` (SIGUSR1 is one
pending bit, whoever sent it; the handler counts), `AwaitReady` (`while (ready < n);`),
`Wait` (any ended child), `Write` and `Read` on pipes that hold `PipeCapacity` writes.
**ZhIpc** adds a semaphore, a queue and a shared memory segment that outlive a run:
`Start`, `Interrupt`, `SemOp`, `MsgSnd`, `MsgRcv` (the oldest message of the type, whoever
sent it), `RemoveSem`, `RemoveQueue`, `RemoveShm`. Calls on something removed fail and the
process goes on, as in the code, which prints the error and ignores it.

The programs on top of them give, for every process and label, the step: **Vetelkedo**,
**Ejtoernyo**, **Teams**, **Tajekoztato**, **Tajekoztato19**, **Uzenet**, **Uzenet2**,
**Szemafor** (`Named` chooses `szemafor.c` or `pos_szemafor.c`), **Szemafor2**,
**MqUzenet**, **Osztmem** and **PollCso** use ZhIpc; **Szavazas**,
**ChildCommunications**, **KozosSzamlalas**, **PipeStruct** and **Pipe2Mashogy** use Zh alone.
Some of them need a step of their own: in MqUzenet `mq_send` uses up the notification
when it finds the queue empty, and `waitpid` may wait or not, because nobody has set its
pid; in PollCso `Poll` returns for data, for a signal or at any time, which is the timeout,
the FIFO's name is a member of `exists`, and a failed fork lets the parent take the child's
branch; in Osztmem a text may be seen half written.

**Folyam** (stream) adds to Zh what pipes are in `5.Gyak`, where ends are closed and sizes
differ: a pipe is a sequence of bytes, `mem["ends"]` who holds which end. `ReadBytes` takes
what is there, up to the size asked for, over the beginning of the buffer; at the end of the
file it takes nothing and the buffer stays as it was. `WriteBytes` without a reader ends the
process. `OpenEnd` and `AwaitEnd` are `open()` of a FIFO, which waits for the other side.
`mem["merged"]` is a history: a write has found an earlier one still in the pipe. **Pipe**
is `pipe.c`, `pipe2.c` and `pipe3.c`, **Nevcso** is `nevcso.c`, `nevcso_mashogy.c` and
`nevcso2.c`; the variable `program` says which.

**ProgramokMC** and **CsovekMC** compose them: the programs do not meet, so a behaviour is
that of one program, chosen by the variable `program`, and properties of one name become
one property.

**Struktura** models `struktura.c`. Only the file outlives a run. It is a sequence of
lexemes (numbers, words, blanks), and `file_read` is the scan that `fscanf("%u\t%[^\t]\t%s\t%s\t%u")`
makes of it, directive by directive: it stops at the first one that does not fit, and the
next call goes on from there. `id_setup` is one round of the loop, `driver_creation` the
prompts and the append. The results of `fprintf` and `fclose` are not looked at: when the disk is
full (`AppendFails`) any beginning of the line stays in the file (`Torn`: cut between two lexemes, in a
number or in a word, or nothing at all), the program goes on as if the record were written, and
the next one is written right behind the torn line, where two lexemes may become one (`Glued`).
`Ends` is any way a run is over. Four histories serve the properties: `recs` are the records
that were written as a whole, `seen` the fields this run has read or written, `plain` says that
no line is torn yet and no email or phone in the file has a blank, and `intact` counts the records
written while it was so. The properties are about those records, also when the file is no longer plain.

**Masolas** (copying) models the four programs of `1.Gyak` that read a file to its end: by
`read` (a loop that takes an error for a character), by `fgetc` into a `char`, by `fgets` up to
a line "over", and with `feof` tested before the read. The disk is full after `Disk`
characters. **AllomanyMC** composes it with Struktura.

**Fcntl** models `fcntl.c` (`locking`) and `fcntl_0.c` (not `locking`): a file is the sequence
of its characters, each with its writer and its place in the line. Both processes use
the offset of the file opened before the fork, so a write appends. **Naplo** is the log it
implements: ended lines, one by one, never taken back.

**Jelek** models the five programs on signals. `pending` holds a normal signal once and
SIGRTMIN as often as it was sent; `mask` and the running `handlers` block; `Deliver` calls
a handler, `EndHandler` returns from it, ends `pause()` and `sigsuspend()` (which restores
the mask) and may interrupt a `wait()` that does not restart. The receiver takes no step
of its own while it has a signal to handle: a signal sent before a call and noticed in it
is the same as one sent in the call. `inVain` is a history of the signals that woke nobody.

**PekVasarloMC**, **TermeloFogyasztoMC** and **FcntlMC** hold the values of constants, as
ProgramokMC, CsovekMC and AllomanyMC do for the programs they compose.

The proofs are in modules of their own: **PekVasarloProofs**, **TermeloFogyasztoProofs**,
**FcntlProofs**, **JelekProofs**, **ProgramokProofs**, **AllomanyProofs**, **ZhProofs** (the programs
of CsovekMC that use Zh alone) and **CsovekProofs** (those that use Folyam, and the theorems about
all of CsovekMC).

## 3. The runs

| run | bounds | what it checks |
|---|---|---|
| PekVasarlo | N = 4, one interrupted run | `TypeOK`; `MutualExclusion` around `s[0]`; `Accounting`: semaphores, held places and `s[0]` add up at every step; `NeverBothWait`; `ShelfSpec` (refines Polc); `EndsUnlessLeftAlone` |
| TermeloFogyaszto | 3 places, 5 rounds, one interrupted run | `TypeOK`, `MutualExclusion`, `Accounting`, `NoUseAfterRemoval`, `NumbersArePlaces`, `NothingLeftOver`, `StoreSpec` (refines Polc), `Terminates` |
| Programok | fifteen programs, two or three runs of each, two answers, points, lines and numbers, pipes that hold two writes | `TypeOK`; `Exclusion`; `NoUseAfterRemoval`; `InOrder`; `KeptAtTheEnd`; `VerdictDeserved`; `ReadsWhatWasMeant`; `Ends` |
| Csovek | eleven programs; -1, 0, 1 and 2 items; pipes that hold two writes; up to three numbers before the 0 and three messages before the "over" | `TypeOK`; `Framed`; `InOrder`; `EveryoneCounted`; `Ends` |
| Allomanyok | `struktura.c`: two records, three runs, a write that fails and leaves any part of its line, names and emails with and without a blank, phones of one number or two; the other four: every text of up to four characters, a line buffer of three, a disk of five | `TypeOK`; `IdsIncrease`; `ReadAsWritten`; `Ends` |
| Fcntl | two lines each, of two and one characters | `TypeOK`; `WholeLines`; `NothingLost`; `LogSpec` (refines Naplo); `AllWritten` |
| Jelek | three signals of each kind instead of five | `TypeOK`; `HeldBack`; `EverySignalHandled`; `Ends` |
| PekVasarloVege, PekVasarloUjra, EjtoernyoUzenet, TeamsJelzes, StrukturaAzonosito | one program each | one statement of the source each, refuted: see section 5 |

Every run of this table takes about a minute or less. A property of Programok, Csovek or
Allomanyok is one idea with a part for each program that it is about; the parts are in the
programs' modules. Deadlock is checked in the run
TermeloFogyaszto, whose program can always be started again; in the others the programs
end, or wait for somebody who need not come, and the end is the subject of a liveness
property instead.

Why the bounds are enough. A shelf of four places and a store of three get empty, partly full
and full, and five rounds in a store of three wrap around and meet both ends; the proofs
of section 6 are for every size. One interrupted run leaves every combination of semaphore
values that one run can leave. Two runs of a program meet what an interrupted one left; the parachute jump,
`uzenet2.c` and the two `szemafor` programs get three, because there messages or
semaphore units can pile up. A pipe that holds two writes is full in every loop of the
election and of the exercises, which a real pipe is only with thousands of writes. Two values
of an answer, of the points and of a line tell "the same" from "another one". In the streams
of bytes a buffer of three or four stands for one of a hundred: a read can take one write,
two, or one and a part of the next, and three messages are enough to do each of these
before an "over" and to it. Three records are one before, one with and one after a phone
that has a blank. Texts of four characters are longer than a line buffer and end with and
without a newline, and four characters printed twice fill the disk of five. Two lines
each let every process get the lock before, between and after the other one's. With three
signals of a kind two can be pending behind one that is handled.

`Accounting` is worth a remark: it is the invariant from which the others follow,
`sem["ures"] + sem["tele"] +` (places in hands) `= N`, and `s[0]` equal to the full places
up to what is stored and not yet published, or promised and not yet taken.

## 4. Fairness

Weak fairness of every process, because the scheduler of the operating system runs
whoever can run, and of `Deliver`, because a pending signal is delivered in finite time. A
blocked call is a disabled step, so weak fairness promises nothing about it. Nobody has to
start a run, press the key or interrupt: these actions are not fair. In Fcntl weak fairness
is enough for the lock, because the other process asks for it a bounded number of times.
In Jelek the armed timer expires. In Allomanyok only `id_setup` and the programs of Masolas
are fair: nobody has to type anything. The user of `nevcso2.c` and `rand()` in `pipe3.c` give
"over" and 0 at last, by the bounds `MaxTyped` and `MaxNumbers`; otherwise nothing would
promise the end of these programs.

One strong fairness: the parent of `szemafor2.c`. Its child takes and releases the
semaphore again and again, so the parent's `semop` is enabled infinitely often and never
continuously; Linux serves a waiting `semop` before a later one.

What the liveness properties leave open is stated in them, and is as small as it can be:
`EndsUnlessLeftAlone` (one worker alone at an empty or full shelf), `Stuck` in the modules of
the programs (two SIGUSR1 merged into one; a message taken back by its sender; a president
who could not open the file; an "over" that ran together with the message before it), `LeftAlone`
in ProgramokMC and CsovekMC (a fork failed; one process waits at the one place named there),
`NeverWoken` in Jelek (a signal in vain), `Stalled` in Struktura (a word where `%u` needs a
number, behind a torn line or an email or phone with a blank and only there: `SetupOver` asks that
the records before it have all been read) and an empty input of `feladat.c`.

## 5. What the runs refute

Each of these runs checks one statement of the source, and TLC finds a behaviour of the
code that breaks it. PROJECT.json quotes the lines.

- **PekVasarloVege**: clearing `s[1]` is not "gyerekek vege" (the end of the children). A
  child blocked at an empty or full shelf never looks at `s[1]` again.
- **PekVasarloUjra**: after an interrupted run `sem_open` keeps the old values while
  `s[0]` starts at 0, and "a polcon levo kenyerek szama" (the number of loaves) goes below zero.
- **EjtoernyoUzenet**: the message "az oktatotol" (from the instructor) may be the student's own.
- **TeamsJelzes**: two SIGUSR1 that merge leave `while (start < 2)` turning for ever.
- **StrukturaAzonosito**: a phone typed as two numbers is read back as the phone and the
  experience, the experience then is the next id, and what is read after it shifts on. The
  next start goes on after the wrong id, and two drivers have the same one, although "mindig
  megfelelő következzen a fileban" (the right one shall always come next in the file).

## 6. The proofs

TLAPS proves the following for every value of the constants, from the assumptions that the
modules name (`NAssumption`: at least one place; `RoundsAssumption`: a natural number, and so on).

*PekVasarloProofs.* `MutualExclusion` is not inductive. It follows from `Accounting`
(`sem["szabad"]` plus the processes between the `szabad` calls is 1), and `Accounting` needs
two more facts: the value a worker has loaded is still the value of `s[0]` when it stores
(`FreshRegister`), and as long as the parent is before a fork the worker it has not forked is
at no label of the loop (`NotYetForked`). The inductive invariant is their conjunction,

    IInv == TypeOK /\ Accounting /\ FreshRegister /\ NotYetForked

with one lemma for each action, `NextIInv` to collect them and `Invariance` (`Spec => []IInv`).
From it: `TypeCorrect`, `AccountingHolds`, `MutualExclusionHolds`, `NeverBothWaitHolds`, and
`ImplementsShelf` (`Spec => ShelfSpec`): a `Store` of a clean run is a put or a take of
Polc, a start or an interruption empties the shelf, every other step leaves it alone.

*TermeloFogyasztoProofs.* Here the life of the run matters: which phase each process is in
when the other one is at some label (`Phases`), that all semaphores exist while a loop
runs (`Existing`), and that a process that has left its loop has done all its rounds
(`RoundsOver`).

    IInv == TypeOK /\ Accounting /\ Phases /\ Existing /\ RoundsOver

From it: `TypeCorrect`, `AccountingHolds`, `MutualExclusionHolds`, `NoUseAfterRemovalHolds`,
`NothingLeftOverHolds`, `NumbersArePlacesHolds` (with `NumberInRange`, that the number
computed from the semaphore is a place), and `ImplementsStore` (`Spec => StoreSpec`).

*FcntlProofs.* The invariant adds to `WholeLines` and `NothingLost` who holds the lock
(`LockHeld`: with `locking`, who is between its two lock calls, and nobody else), and that the
file then ends with the character written last (`EndOfFile`), so that the next one continues
the line. From it: `TypeCorrect`, `WholeLinesHolds`, `NothingLostHolds`, and `ImplementsLog`
(`Spec => LogSpec`): the write of the last character of a line appends the line to Naplo, every
other step leaves the log alone.

*JelekProofs.* `Common` says of all five programs what the operations of the module keep: a normal
signal is pending at most once, no handler is interrupted by its own signal, each running handler
has caught what it handles. Each program adds where its two processes can be and which of its
signals are on their way, pending, handled or over (`InSigaction`, `InSigprocmask`, ...); for
`sigaction_multiple.c`, that the real-time signals caught and those pending are, together and in
order, those sent. From it: `TypeCorrect`, `HeldBackHolds`, `EverySignalHandledHolds`.

*ProgramokProofs.* `ProgramInv` has a part for each program: `VInv` (quiz), `EInv` (jump), `TInv`
(Teams), `TKInv` and `T19Inv` (press conferences), `UInv` and `U1Inv` (messages), `SInv` and `S2Inv`
(semaphores), `MQInv`, `OInv` and `POInv`. They are made of a few recurring facts:

- `Lock` and `Mutex`: the semaphore's value plus the processes inside is 1, until main removes
  it, which it does on its way to the labels given as `removed`;
- `Heard`: main has counted no more signals than its children have sent, so after
  `while (ready < 2);` both are past their `kill`;
- who has been forked at which label of main, since a process that has not been forked is nowhere;
- where a datum is at each label: not drawn yet, in the pipe or the queue, or with its reader
  and equal to what was sent;
- what interrupted runs leave: messages only with their types and senders, at most one unit
  of a named semaphore for each run, a text only where there is a unit.

From it: all seven invariants of the run Programok.

*AllomanyProofs.* For `struktura.c` the file is cut into lines by a function `b` (`StLines`: line k
begins at `b[k]` and is the record `recs[k]`), and `StReadsLine` shows that `file_read`,
started before such a line, gets exactly to its end, through every directive of the format.
`StInv` says so of the `intact` lines at the beginning of the file, and that they hold
whatever follows them: `StLineKept` shows that neither a whole line nor a torn one that is
written behind them changes them, since the last of them ends with a newline and nothing is
glued to that. The ids increase along these lines, and every start reads them first, in order and with all
their fields. What the next id is (`StNextId`) and that the last line ends the
file are claimed only while the file is `plain`, as in the properties. For the programs of Masolas
`Copy(out, n)` says that what is written is the first n characters read, and each loop has its
exceptions: what is in the buffer, a full disk (`MaTorn`: what fits of a line), the byte 0xFF, the
last line once more (`Whole(out)`: the file and more). From it:
`TypeCorrect`, `IdsIncreaseHolds`, `ReadAsWrittenHolds`.

*ZhProofs and CsovekProofs.* `CsovekInv` has a part for each program again, and the parts have
one form. What goes through a pipe is the history of what one process has drawn, typed or
judged, so the invariant never describes the contents of a pipe: it says how many items have been
written and how many read at each pair of labels, and `Channel(q, F, r, s)` that the pipe holds
items r + 1 to s of the history F. `ChannelWritten` and `ChannelRead` are the two steps; order,
sizes and completeness (the pipe is empty when r = s) follow.

- Election (`SZInv`): three channels, where the second one carries an id (int) and its judgement
  (char) in turn, and -1 at the end; `c[k]` of the first k judgements are good.
  That is what makes the stamper's reads meet the right size (`Framed`), its counts those of the
  checker (`EveryVoterCounted`) and its votes as many as the good judgements. That the votes of
  all parties add up to that number is a sum over a finite set. The prover has no induction over
  data to offer, so `SumsExist` and `SumsRaised` argue by the least counterexample
  (`LeastNat`, from the theorem on minimal elements of well-founded relations).
- Exercises (`CInv`, `KInv`, `PSInv`, `P2Inv`): one or two channels each.
- Pipe (`PInv`): the bytes ever written are one sequence in which text k is the piece of two or
  three bytes at its place, and the pipe is a part of that sequence which begins and ends
  between two pieces (`PBytes`), whatever the number of texts a read finds.
- FIFO (`NInv`): reads cut messages anywhere, so pieces are no help. `NStops` says instead that
  from every byte in the FIFO on there is, at most two bytes further, a NUL that ends a message or
  the end of one, whence the buffer of three is always a string the parent may look at; and
  `NFifo` that the bytes in it are at most three for each message not looked at, whence never
  more are looked at than were sent. As long as no write has met another one in the FIFO it
  holds nothing or one whole message.

From it: `TypeCorrect`, `FramedHolds`, `InOrderHolds`, `EveryoneCountedHolds`.

What these inductive invariants imply TLC checks on small instances in the runs of section 3; the
proofs say that the bounds of those runs hide nothing.

Assumptions on the constants, all named in the modules: sizes and numbers of rounds are natural
numbers (`MaxLines`, `Disk`, `MaxNumbers`, ..., `N`, `Number`, `Copies`, `PipeCapacity` and
`MaxRuns` at least 1), a line buffer has room for one character and the NUL (`Buffer >= 2`),
`Counts` are integers, as `atoi` gives them, `Numbers` of CsovekMC natural numbers, as `rand` does, the
parties finitely many, and `Numbers` of ProgramokMC do not contain "unset", which stands for a variable
without a value. Texts that are definitions and not constants are those of the definitions: the
names, emails and phones of Struktura and the two `Messages` of `nevcso2.c`.

Only model-checked, because the prover has no fairness and no ENABLED: the liveness properties
`EndsUnlessLeftAlone`, `Terminates`, `Ends` (in four runs) and `AllWritten`. The same
holds for the five refutations of section 5, which are behaviours TLC finds.

## 7. What is abstracted

- Texts, names and answers are members of small sets; wording, percentages and the layout of
  the result file are left out. `sleep` and `usleep` promise nothing and are left out.
- Outside Folyam a pipe is a sequence of items, one for each `write`. That is exact where every read asks
  for the size that was written: `Framed` checks this for the election and for the array of
  structures, the other programs use one size per pipe. No write is above `PIPE_BUF`.
- The processes of the exams, of `Gyakorlas` and of `pipe2_mashogy.c` keep both ends of every
  pipe open, as in the code (no `close` before the end), so there is neither end of file
  nor EPIPE. A FIFO opened for reading and writing (PollCso) has neither as well.
- In Folyam a byte is a letter, and "over", "Hajra Fradi!" or any other text that is compared
  or printed as a whole is one letter. A buffer nobody has initialised holds an arbitrary
  byte that is none of the digits and letters and no NUL.
- In Struktura a word is one lexeme whatever its letters, and so is the beginning of one that a
  full disk leaves; a number has at most five digits where another is written right behind it;
  a record is written by one `write`, so a disk that is full takes one beginning of it. Texts are
  shorter than 50 characters,
  and a run that crashes (the answer "-" and the experience 0 read through the null pointer
  that main passes) is one that ends. `command` is not initialised: the first round of the
  menu may add a record nobody has asked for, which is a `Choose1` like any other.
- In Masolas an uninitialised `char` or line holds one arbitrary character, or none. A directory
  as the first argument stands for every read error.
- `semget`, `shmget`, `msgget` and `pipe` are assumed to succeed (the code prints an error
  and goes on, or exits before anything is shared); so are `F_SETLKW`,
  `mq_open` and `open` of a FIFO that was made. `fork` may fail wherever
  the code looks at it or should have. What a failed second fork leaves running ends
  with `Interrupt`.
- `GETVAL` and the `printf` after it are one step: the value printed is the value read.
- A missing argument, which crashes `atoi` in `child_communications.c`, is not modelled.
- Real-time signals are assumed to fit into the kernel's queue.
- The reads beyond a string literal that some `msgsnd` and `write` calls make change nothing
  that a property is about.
- POSIX and System V differ in two ways that matter and are modelled: a named semaphore
  keeps its value when it is opened again and loses its name only by `sem_unlink`; `SETVAL`
  sets the value at each start.

## 8. Known and not run

These follow from the models, are of the same kind as something in section 5, and have no
run of their own.

- `termelo_fogyaszto_systemv.c:98` prints the number of an "empty place": `number-r-1` counts
  places that are not free, and may be the number of one that holds a product.
- `vetelkedo.c:320` takes the semaphore and prints both answers without knowing that the players
  have stored them.
- `mq_uzenet.c:88` says "Child process exited, so message is sent!" after a `waitpid` that may not
  have waited. The message is received all the same: `while (code != SI_MESGQ)` waits.
- In `nevcso2.c` an "over" that is read together with the message before it is not looked at,
  and the parent adds its last number for ever (`Stuck`); one that is cut off the end of a longer
  message ends the parent too early, and the child is ended by its next write. After a failed
  fork who should be the parent blocks in `open`, in `nevcso.c` as well.
- `pipe2.c` writes two bytes, so two digits come without a NUL and what the buffer held is
  printed after them; `nevcso_mashogy.c` sends twelve characters without a NUL into a buffer
  that nobody has set.
- After a failed fork `sel_cso.c` waits for ever for itself. A child of `ppoll.cso.c` that has not
  called `signal` yet is ended by the SIGUSR1, and one that has not called `ppoll` waits for
  its timeout.
- The child of `osztmem.c` may read a part of the text, or nothing: `sleep` orders nothing.
- `file.c` copies a file to itself as an empty one, and does not end with a directory until the
  disk is full. `open_fopen.c:31` is to "position to the first character" but moves by 0
  from where it is; its loops over `feof` print the last line or character twice.
- After a failed write `struktura.c:122` reports success all the same: it looks at the function
  `fprintf` and not at its result. A torn line that lacks only its newline is not counted by the
  next start, because `feof` is true by then, and its id is given again; one that ends earlier runs
  together with the next record, and what is read from there on is shifted, so that an id may come
  again, or a word stand for a number and `id_setup` not end. `UniqueIds` is refuted in
  section 5 without any of this.
- On a full disk `feladat.c` ends in the middle of a line, which stays in the file.
- When the second fork of the quiz fails the first player stays behind, blocked in `read` on a
  pipe it holds a write end of itself; only Ctrl-C ends it. The other programs with two children
  leave their first one behind in the same way: `LeftAlone` names where.
- The points of the parachute jump, the answer in Teams and the data of the press
  conference may be printed before they are written, like the answers of the quiz.
- The quiz may judge the guess of an interrupted game: `VerdictDeserved` leaves it out.
- `signal.c` of gy2 sends its signal right after the fork; if it is handled before
  `pause()`, child and parent wait for ever. The other signal programs rely on `sleep`.
- `szavazas.c`, `vetelkedo.c`, `tajekoztato1.c` and `child_communications.c` call `wait`
  once for two children, so main may return first. `Gyakorlas/Feladatok.txt` asks to
  wait for the children.
- In `szemafor2.c` the "previous" length is that of the text the child read last, which
  need not be the line typed before.

## 9. Not modelled

- `setitimer.c`, `sendsignals.c`: one process and its own signals, counted or printed.
- The programs on processes (`2.Gyak`, `3.Gyak`, `gy1`): a fork, a copied variable and one or two
  waits, `exec`, `system`; the processes share nothing. The same forks and waits are in Zh.
- `arg.c`, `directory.c`, `elso.c`, `mtime.c`, `passwd.c`, `pointers.c`, `strings.c`, `rand.c`,
  `write.c`: they print what they are given and keep no state.
- The empty programs `vetelkedo.c` and `tajekoztato.c` above the groups' directories, and
  copies of a modelled program (`20.Csoport/vetelkedo.c` and the files of `Anyag` that the
  numbered directories have as well differ in wording and layout).

## 10. The plan

Done, in this order: PekVasarlo with Polc and its proofs; TermeloFogyaszto and its proofs;
Zh and ZhIpc with the exam programs and the small programs; the pipe programs; Fcntl with
Naplo; Jelek; Struktura and Masolas; Folyam with the programs of `5.Gyak`; the message
programs and the shared memory of `6. Gyak`. What is left to model is in section 9. The proofs
came in the order of section 6, and cover every invariant and every refinement of the runs.

What would be worth adding: the texts of Struktura and the messages of `nevcso2.c` as constants
with assumptions on their form, so that the proofs hold for those too; and an abstract
channel, which delivers its items in order, that the programs on pipes implement.
