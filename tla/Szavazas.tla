------------------------------ MODULE Szavazas ------------------------------
(***************************************************************************)
(* ZH Gyak/Szavazas/szavazas.c: an election.  The president (main) sends   *)
(* the voters' ids to a checker, the checker passes each on to a stamper   *)
(* together with its judgement, the stamper counts them, and sends the     *)
(* president the counts and a vote for everybody who may vote.              *)
(***************************************************************************)
EXTENDS Zh, SequencesExt

CONSTANTS
  Counts,    \* what atoi(argv[1]) may be
  Ids,       \* rand_id(1000)
  Parties    \* 1..4

Children == {"ellenorzo_tag", "pecsetelo_tag"}
Processes == Children \cup {"main"}
Pipes == {"io_pipes_out", "ellenorzo_ki", "pecsetelo_ki"}

\* What is written: 4 bytes or 1 byte.  A read takes one item, which is what
\* read() does as long as it asks for the size that was written (Framed).
int(v) == [size |-> "int", val |-> v]
char(v) == [size |-> "char", val |-> v]

\* The local variables of main (szavazok to partok), of the checker
\* (szavazoszam to jok) and of the stamper (fogadott to kor).  kapott, latott
\* and jok keep what was received and judged.
NoLocals ==
  [szavazok |-> 0, idk |-> <<>>, i |-> 0, szavazhat_elnok |-> int(0),
   nem_szavazhat_elnok |-> int(0), szavazat |-> int(0), partok |-> [p \in Parties |-> 0],
   szavazoszam |-> int(0), szavazo_idje |-> int(0), kapott |-> <<>>, j |-> 0,
   itelet |-> "j", jok |-> 0,
   fogadott |-> int(0), puffer |-> char("j"), latott |-> <<>>, szavazhat |-> 0,
   nem_szavazhat |-> 0, kor |-> 0]

Init ==
  /\ pc = [p \in Processes |-> IF p = "main" THEN "setup" ELSE "off"]
  /\ pending = FALSE /\ ready = 0 /\ reaped = {}
  /\ pipe = [d \in Pipes |-> <<>>]
  /\ mem = NoLocals

-----------------------------------------------------------------------------
(* The president *)

\* The number of voters comes from the command line, the ids from rand_id.
\* Without an argument, or without a pipe, main ends.
Setup ==
  /\ \/ \E n \in Counts : \E ids \in [1 .. (IF n > 0 THEN n ELSE 0) -> Ids] :
          /\ mem' = [mem EXCEPT !["szavazok"] = n, !["idk"] = ids]
          /\ Step("main", "setup", "fork1")
     \/ Step("main", "setup", "exited") /\ UNCHANGED mem
  /\ UNCHANGED <<pending, ready, reaped, pipe>>

\* Both members are forked and have signalled; then all ids are sent.
elnokStart ==
  \/ Fork("ellenorzo_tag", "fork1", "fork2")
  \/ Fork("pecsetelo_tag", "fork2", "ready1")
  \/ AwaitReady(1, "ready1", "ready2")
  \/ AwaitReady(2, "ready2", "write_count")

elnokIds ==
  \/ Write("main", "write_count", "ids", "io_pipes_out", int(mem["szavazok"]))
  \/ /\ mem["i"] < mem["szavazok"]
     /\ Write("main", "ids", "ids++", "io_pipes_out", int(mem["idk"][mem["i"] + 1]))
  \/ Assign("main", "ids++", "ids", "i", mem["i"] + 1)
  \/ mem["i"] >= mem["szavazok"] /\ Jump("main", "ids", "read_count")

\* The two counts, the file they are written to (or exit(1)), the votes
elnokVotes ==
  \/ Read("main", "read_count", "read_nem", "pecsetelo_ki", "szavazhat_elnok")
  \/ Read("main", "read_nem", "fopen", "pecsetelo_ki", "nem_szavazhat_elnok")
  \/ Assign("main", "fopen", "votes", "i", 0)
  \/ Jump("main", "fopen", "exited")
  \/ /\ mem["i"] < mem["szavazhat_elnok"].val
     /\ Read("main", "votes", "tally", "pecsetelo_ki", "szavazat")
  \/ Assign("main", "tally", "votes++", "partok",
            [p \in Parties |-> mem["partok"][p] + (IF p = mem["szavazat"].val THEN 1 ELSE 0)])
  \/ Assign("main", "votes++", "votes", "i", mem["i"] + 1)
  \/ mem["i"] >= mem["szavazhat_elnok"].val /\ Jump("main", "votes", "wait")

elnok == elnokStart \/ elnokIds \/ elnokVotes \/ Wait(Children, "wait", "done")

-----------------------------------------------------------------------------
(* The checker *)

\* First everything is read ...
ellenorzoReads ==
  \/ Kill("ellenorzo_tag", "start", "read_count")
  \/ Read("ellenorzo_tag", "read_count", "read", "io_pipes_out", "szavazoszam")
  \/ /\ Len(mem["kapott"]) < mem["szavazoszam"].val
     /\ Read("ellenorzo_tag", "read", "keep", "io_pipes_out", "szavazo_idje")
  \/ Assign("ellenorzo_tag", "keep", "read", "kapott",
            Append(mem["kapott"], mem["szavazo_idje"].val))
  \/ /\ Len(mem["kapott"]) >= mem["szavazoszam"].val
     /\ Jump("ellenorzo_tag", "read", "write")

\* A slip: the first id is skipped.
ellenorzoWritesShifted ==
  \/ /\ mem["j"] + 1 < mem["szavazoszam"].val
     /\ Write("ellenorzo_tag", "write", "judge", "ellenorzo_ki", int(mem["kapott"][mem["j"] + 2]))
  \/ \E v \in {"h", "j"} : Assign("ellenorzo_tag", "judge", "write_j", "itelet", v)
  \/ Write("ellenorzo_tag", "write_j", "count_j", "ellenorzo_ki", char(mem["itelet"]))
  \/ Assign("ellenorzo_tag", "count_j", "j++", "jok",
            mem["jok"] + (IF mem["itelet"] = "j" THEN 1 ELSE 0))
  \/ Assign("ellenorzo_tag", "j++", "write", "j", mem["j"] + 1)
  \/ /\ mem["j"] + 1 >= mem["szavazoszam"].val
     /\ Write("ellenorzo_tag", "write", "exited", "ellenorzo_ki", int(-1))

\* A slip: the judgement of a wrong id is not sent.
ellenorzoWritesUnframed ==
  \/ /\ mem["j"] < mem["szavazoszam"].val
     /\ Write("ellenorzo_tag", "write", "judge", "ellenorzo_ki", int(mem["kapott"][mem["j"] + 1]))
  \/ Assign("ellenorzo_tag", "judge", "write_j", "itelet", "j")
  \/ Assign("ellenorzo_tag", "judge", "count_j", "itelet", "h")
  \/ Write("ellenorzo_tag", "write_j", "count_j", "ellenorzo_ki", char(mem["itelet"]))
  \/ Assign("ellenorzo_tag", "count_j", "j++", "jok",
            mem["jok"] + (IF mem["itelet"] = "j" THEN 1 ELSE 0))
  \/ Assign("ellenorzo_tag", "j++", "write", "j", mem["j"] + 1)
  \/ /\ mem["j"] >= mem["szavazoszam"].val
     /\ Write("ellenorzo_tag", "write", "exited", "ellenorzo_ki", int(-1))

\* ... then every id is sent with 'h' (wrong) or 'j' (good), and -1 at the end.
ellenorzoWrites ==
  \/ /\ mem["j"] < mem["szavazoszam"].val
     /\ Write("ellenorzo_tag", "write", "judge", "ellenorzo_ki", int(mem["kapott"][mem["j"] + 1]))
  \/ \E v \in {"h", "j"} : Assign("ellenorzo_tag", "judge", "write_j", "itelet", v)
  \/ Write("ellenorzo_tag", "write_j", "count_j", "ellenorzo_ki", char(mem["itelet"]))
  \/ Assign("ellenorzo_tag", "count_j", "j++", "jok",
            mem["jok"] + (IF mem["itelet"] = "j" THEN 1 ELSE 0))
  \/ Assign("ellenorzo_tag", "j++", "write", "j", mem["j"] + 1)
  \/ /\ mem["j"] >= mem["szavazoszam"].val
     /\ Write("ellenorzo_tag", "write", "exited", "ellenorzo_ki", int(-1))

ellenorzo_tag == ellenorzoReads \/ ellenorzoWrites

-----------------------------------------------------------------------------
(* The stamper *)

\* A slip: good and wrong ids are counted together.
pecseteloReadsAll ==
  \/ Kill("pecsetelo_tag", "start", "read_id")
  \/ Read("pecsetelo_tag", "read_id", "look", "ellenorzo_ki", "fogadott")
  \/ mem["fogadott"].val = -1 /\ Jump("pecsetelo_tag", "look", "write_szavazhat")
  \/ /\ mem["fogadott"].val # -1
     /\ Assign("pecsetelo_tag", "look", "read_puffer", "latott",
               Append(mem["latott"], mem["fogadott"].val))
  \/ Read("pecsetelo_tag", "read_puffer", "count", "ellenorzo_ki", "puffer")
  \/ Assign("pecsetelo_tag", "count", "read_id", "szavazhat", mem["szavazhat"] + 1)

\* Pairs of id and judgement until -1
pecseteloReads ==
  \/ Kill("pecsetelo_tag", "start", "read_id")
  \/ Read("pecsetelo_tag", "read_id", "look", "ellenorzo_ki", "fogadott")
  \/ mem["fogadott"].val = -1 /\ Jump("pecsetelo_tag", "look", "write_szavazhat")
  \/ /\ mem["fogadott"].val # -1
     /\ Assign("pecsetelo_tag", "look", "read_puffer", "latott",
               Append(mem["latott"], mem["fogadott"].val))
  \/ Read("pecsetelo_tag", "read_puffer", "count", "ellenorzo_ki", "puffer")
  \/ /\ mem["puffer"].val = "h"
     /\ Assign("pecsetelo_tag", "count", "read_id", "nem_szavazhat", mem["nem_szavazhat"] + 1)
  \/ /\ mem["puffer"].val = "j"
     /\ Assign("pecsetelo_tag", "count", "read_id", "szavazhat", mem["szavazhat"] + 1)

\* A slip: one vote is missing.
pecseteloWritesShort ==
  \/ Write("pecsetelo_tag", "write_szavazhat", "write_nem", "pecsetelo_ki", int(mem["szavazhat"]))
  \/ Write("pecsetelo_tag", "write_nem", "vote", "pecsetelo_ki", int(mem["nem_szavazhat"]))
  \/ /\ mem["kor"] + 1 < mem["szavazhat"]
     /\ \E p \in Parties : Write("pecsetelo_tag", "vote", "kor++", "pecsetelo_ki", int(p))
  \/ Assign("pecsetelo_tag", "kor++", "vote", "kor", mem["kor"] + 1)
  \/ mem["kor"] + 1 >= mem["szavazhat"] /\ Jump("pecsetelo_tag", "vote", "exited")

\* The counts, then a vote for each good id
pecseteloWrites ==
  \/ Write("pecsetelo_tag", "write_szavazhat", "write_nem", "pecsetelo_ki", int(mem["szavazhat"]))
  \/ Write("pecsetelo_tag", "write_nem", "vote", "pecsetelo_ki", int(mem["nem_szavazhat"]))
  \/ /\ mem["kor"] < mem["szavazhat"]
     /\ \E p \in Parties : Write("pecsetelo_tag", "vote", "kor++", "pecsetelo_ki", int(p))
  \/ Assign("pecsetelo_tag", "kor++", "vote", "kor", mem["kor"] + 1)
  \/ mem["kor"] >= mem["szavazhat"] /\ Jump("pecsetelo_tag", "vote", "exited")

pecsetelo_tag == pecseteloReads \/ pecseteloWrites

-----------------------------------------------------------------------------
\* sigint_handler: Ctrl-C reaches all three processes, and each calls exit(-1).
sigint_handler ==
  /\ Alive("main")
  /\ pc' = [p \in Processes |-> "exited"]
  /\ UNCHANGED <<pending, ready, reaped, pipe, mem>>

Next == Setup \/ elnok \/ ellenorzo_tag \/ pecsetelo_tag \/ Deliver \/ sigint_handler

Spec == Init /\ [][Next]_zhVars

-----------------------------------------------------------------------------
(* Properties *)

Voters == IF mem["szavazok"] > 0 THEN mem["szavazok"] ELSE 0

TypeOK ==
  /\ DOMAIN pc = Processes
  /\ pending \in BOOLEAN /\ ready \in 0..2 /\ reaped \subseteq Children
  /\ \A d \in Pipes : /\ Len(pipe[d]) \in 0..PipeCapacity
                      /\ \A k \in DOMAIN pipe[d] : pipe[d][k].size \in {"int", "char"}
  /\ mem["szavazok"] \in Counts \cup {0}
  /\ mem["i"] \in 0..Voters /\ mem["j"] \in 0..Voters /\ mem["kor"] \in 0..Voters
  /\ mem["szavazhat"] \in 0..Voters /\ mem["nem_szavazhat"] \in 0..Voters

\* A process that reads 4 bytes finds a 4-byte item, one that reads a byte
\* finds a byte, although both sizes share the pipe between the two members.
Framed ==
  /\ pc["pecsetelo_tag"] = "read_id" /\ pipe["ellenorzo_ki"] # <<>>
       => Head(pipe["ellenorzo_ki"]).size = "int"
  /\ pc["pecsetelo_tag"] = "read_puffer" /\ pipe["ellenorzo_ki"] # <<>>
       => Head(pipe["ellenorzo_ki"]).size = "char"

\* The stamper sees the ids of the president, in their order, none left out.
InOrder ==
  /\ IsPrefix(mem["latott"], mem["idk"])
  /\ pc["pecsetelo_tag"] \in {"write_szavazhat", "write_nem"} => mem["latott"] = mem["idk"]

\* Every voter is counted, as judged by the checker: what the president has
\* read adds up to the number of voters.
EveryVoterCounted ==
  pc["main"] \in {"fopen", "votes", "tally", "votes++", "wait", "done"} =>
    /\ mem["szavazhat_elnok"].val = mem["jok"]
    /\ mem["szavazhat_elnok"].val + mem["nem_szavazhat_elnok"].val = Voters

\* One vote for everybody who may vote, and none is left in the pipe.
EveryVoteCounted ==
  pc["main"] \in {"wait", "done"} =>
    /\ FoldSet(LAMBDA p, n : mem["partok"][p] + n, 0, Parties) = mem["szavazhat_elnok"].val
    /\ pipe["pecsetelo_ki"] = <<>>

\* The ways the election stops short: the two signals are merged into one, or
\* the president could not open the file and has left the stamper behind, which
\* fills the pipe.
Stuck ==
  \/ SignalLost(Children, 2)
  \/ /\ pc["main"] = "exited" /\ pc["pecsetelo_tag"] = "vote"
     /\ Len(pipe["pecsetelo_ki"]) = PipeCapacity
=============================================================================
