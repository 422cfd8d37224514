----------------------------- MODULE ArchiveProofs -----------------------------
(***************************************************************************)
(* For any commands, plans, moves, faults and kills.                       *)
(*                                                                         *)
(* A package command does not succeed when its destination was moved away  *)
(* before its last check.  The strengthening says what a command has       *)
(* pinned at each point, and that the next check of the path tells whether *)
(* it has strayed: a directory that another command makes is never the one *)
(* that was pinned.                                                        *)
(*                                                                         *)
(* Archives are whole, and a command that no other one interferes with     *)
(* publishes its plan and replaces no archive by an equal one.  Here the   *)
(* strengthening says which archives of its list such a command has in     *)
(* place, and that its comparison still holds when it commits.  The list   *)
(* is a fold over the plan; that it holds each unit of the plan is shown   *)
(* by a least counterexample, so no recursion is taken on trust.           *)
(***************************************************************************)
EXTENDS ReleaseArchive, TLAPS, FiniteSetTheorems, SequenceTheorems, WellFoundedInduction

SomePlan == CHOOSE pl \in Plans : TRUE
Pinning == {"open", "validate", "create", "mkdir", "enter", "recheck"}
Checking == {"prepare", "begin", "fill", "check"}
Labels == Ended \cup Pinning \cup Checking \cup {"commit"}

Typed ==
    /\ baseAt \in Bases
    /\ entry \in [Bases -> Entries]
    /\ pc \in [Procs -> Labels]
    /\ plan \in [Procs -> Plans \cup {SomePlan}]
    /\ root \in [Procs -> Dirs \cup Bases \cup {None}]
    /\ next \in [Procs -> Dirs \cup {None}]
    /\ missing \in [Procs -> BOOLEAN]
    /\ strayed \in [Procs -> BOOLEAN]
    /\ index \in [Procs -> Nat]

\* What a command has pinned.
Pins(p) ==
    /\ pc[p] \in {"validate", "create"} /\ missing[p] => root[p] \in Bases
    /\ pc[p] \in {"validate", "create"} /\ ~missing[p] => root[p] \in Dirs
    /\ pc[p] \in {"mkdir", "enter", "recheck"} => root[p] \in Bases
    /\ pc[p] = "recheck" => next[p] \in Dirs
    /\ pc[p] \in Checking \cup {"commit"} => root[p] \in Dirs

\* It knows whether it has strayed, or will find out.
Tells(p) ==
    /\ pc[p] \in Pinning \cup {"ok"} => ~strayed[p]
    /\ WillCheck(p) => (strayed[p] <=> Reached # root[p])
    /\ pc[p] \in {"prepare", "commit"} /\ ~WillCheck(p) => ~strayed[p]

IInv ==
    /\ Typed
    /\ \A p \in Procs : Pins(p) /\ Tells(p)

-----------------------------------------------------------------------------
(* Entries and frames *)

LEMMA EntryLeads ==
    ASSUME NEW e \in Entries
    PROVE  /\ e.dir \in Dirs \cup {None}
           /\ e.kind = "dir" => e.dir \in Dirs
  BY DEF Entries, Nothing, File, Directory, Link

\* The other commands keep what they know.
Others(p) ==
    \A q \in Procs \ {p} :
        /\ pc'[q] = pc[q] /\ plan'[q] = plan[q] /\ root'[q] = root[q] /\ next'[q] = next[q]
        /\ missing'[q] = missing[q] /\ strayed'[q] = strayed[q] /\ index'[q] = index[q]

LEMMA StepKeeps ==
    ASSUME IInv, NEW p \in Procs, Typed', UNCHANGED <<baseAt, entry>>, Others(p),
           Pins(p)', Tells(p)'
    PROVE  IInv'
<1>1. ASSUME NEW q \in Procs, q # p PROVE Pins(q)' /\ Tells(q)'
  <2>1. /\ pc'[q] = pc[q] /\ plan'[q] = plan[q] /\ root'[q] = root[q] /\ next'[q] = next[q]
        /\ missing'[q] = missing[q] /\ strayed'[q] = strayed[q] /\ index'[q] = index[q]
    BY <1>1 DEF Others
  <2>2. Writes(q)' = Writes(q)  BY <2>1 DEF Writes
  <2>3. Reached' = Reached  BY DEF Reached
  <2>4. WillCheck(q)' = WillCheck(q)  BY <2>1, <2>2 DEF WillCheck
  <2>5. Pins(q)'  BY <2>1 DEF IInv, Pins
  <2>6. Tells(q)'  BY <2>1, <2>3, <2>4 DEF IInv, Tells
  <2> QED  BY <2>5, <2>6
<1> QED  BY <1>1 DEF IInv

\* A command goes on and pins nothing.
LEMMA GotoKeeps ==
    ASSUME IInv, NEW p \in Procs, NEW label \in Labels, Goto(p, label),
           UNCHANGED <<baseAt, entry, plan, root, next, missing, strayed, index>>,
           Pins(p)', Tells(p)'
    PROVE  IInv'
<1>1. /\ pc' \in [Procs -> Labels]
      /\ \A q \in Procs \ {p} : pc'[q] = pc[q]
  BY DEF Goto, IInv, Typed
<1>2. Typed'  BY <1>1 DEF IInv, Typed
<1>3. Others(p)  BY <1>1 DEF Others
<1> QED  BY <1>2, <1>3, StepKeeps

LEMMA GotoOnly ==
    ASSUME IInv, NEW p \in Procs, NEW label \in Labels, Goto(p, label)
    PROVE  /\ pc' \in [Procs -> Labels] /\ pc'[p] = label
           /\ \A q \in Procs \ {p} : pc'[q] = pc[q]
  BY DEF Goto, IInv, Typed

LEMMA EndKeeps ==
    ASSUME IInv, NEW p \in Procs, Goto(p, "failed") \/ Goto(p, "idle"),
           UNCHANGED <<baseAt, entry, plan, root, next, missing, strayed, index>>
    PROVE  IInv'
<1>1. PICK label \in {"failed", "idle"} : Goto(p, label)  OBVIOUS
<1>2. label \in Labels /\ label \notin Pinning \cup Checking \cup {"ok", "commit"}
  BY DEF Labels, Ended, Pinning, Checking
<1>3. pc'[p] = label  BY <1>1, <1>2, GotoOnly
<1>4. Pins(p)'  BY <1>2, <1>3 DEF Pins, Pinning
<1>5. Tells(p)'  BY <1>2, <1>3 DEF Tells, WillCheck
<1> QED  BY <1>1, <1>2, <1>4, <1>5, GotoKeeps

\* A step from one point of pinning to the next.
LEMMA PinningKeeps ==
    ASSUME IInv, NEW p \in Procs, pc[p] \in Pinning,
           NEW label \in Pinning, Goto(p, label),
           UNCHANGED <<baseAt, entry, plan, root, next, missing, strayed, index>>,
           Pins(p)'
    PROVE  IInv'
<1>1. label \in Labels /\ label \notin Checking \cup {"commit", "ok"}
  BY DEF Labels, Pinning, Checking
<1>2. pc'[p] = label  BY <1>1, GotoOnly
<1>3. ~strayed'[p]  BY DEF IInv, Tells
<1>4. Tells(p)'  BY <1>1, <1>2, <1>3 DEF Tells, WillCheck, Pinning
<1> QED  BY <1>1, <1>4, GotoKeeps

\* The last check of pinning finds the path at its directory.
LEMMA PinnedTells ==
    ASSUME IInv, NEW p \in Procs, pc[p] \in Pinning, pc'[p] = "prepare",
           strayed' = strayed, Reached' = root'[p]
    PROVE  Tells(p)'
<1>1. ~strayed'[p]  BY DEF IInv, Tells
<1>2. "prepare" \notin Pinning \cup {"ok", "commit"}  BY DEF Pinning
<1> QED  BY <1>1, <1>2 DEF Tells, WillCheck, Checking

-----------------------------------------------------------------------------
(* Pinning the destination *)

LEMMA StartKeeps == ASSUME IInv, NEW p \in Procs, Start(p) PROVE IInv'
<1>1. /\ Goto(p, "open") /\ UNCHANGED <<baseAt, entry, missing>>
      /\ root' = [root EXCEPT ![p] = None] /\ next' = [next EXCEPT ![p] = None]
      /\ index' = [index EXCEPT ![p] = 1] /\ strayed' = [strayed EXCEPT ![p] = FALSE]
      /\ \E pl \in Plans : plan' = [plan EXCEPT ![p] = pl]
  BY DEF Start, disk
<1>2. "open" \in Labels  BY DEF Labels, Pinning
<1>3. /\ pc' \in [Procs -> Labels] /\ pc'[p] = "open"
      /\ \A q \in Procs \ {p} : pc'[q] = pc[q]
  BY <1>1, <1>2, GotoOnly
<1>4. Typed'
  <2>1. plan' \in [Procs -> Plans \cup {SomePlan}]  BY <1>1 DEF IInv, Typed
  <2>2. root' \in [Procs -> Dirs \cup Bases \cup {None}]  BY <1>1 DEF IInv, Typed
  <2>3. next' \in [Procs -> Dirs \cup {None}]  BY <1>1 DEF IInv, Typed
  <2>4. index' \in [Procs -> Nat] /\ strayed' \in [Procs -> BOOLEAN]  BY <1>1 DEF IInv, Typed
  <2> QED  BY <1>1, <1>3, <2>1, <2>2, <2>3, <2>4 DEF IInv, Typed
<1>5. Others(p)
  <2>1. \A q \in Procs \ {p} : plan'[q] = plan[q]  BY <1>1 DEF IInv, Typed
  <2>2. \A q \in Procs \ {p} : root'[q] = root[q] /\ next'[q] = next[q] /\ index'[q] = index[q]
    BY <1>1 DEF IInv, Typed
  <2>3. \A q \in Procs \ {p} : strayed'[q] = strayed[q] /\ missing'[q] = missing[q]
    BY <1>1 DEF IInv, Typed
  <2> QED  BY <1>3, <2>1, <2>2, <2>3 DEF Others
<1>6. Pins(p)'  BY <1>3 DEF Pins, Checking
<1>7. ~strayed'[p]  BY <1>1 DEF IInv, Typed
<1>8. Tells(p)'  BY <1>3, <1>7 DEF Tells, WillCheck, Checking
<1> QED  BY <1>1, <1>4, <1>5, <1>6, <1>8, StepKeeps

LEMMA OpenKeeps == ASSUME IInv, NEW p \in Procs, Open(p) PROVE IInv'
<1>1. /\ pc[p] = "open" /\ UNCHANGED <<baseAt, entry, plan, next, index, strayed>>
  BY DEF Open, disk
<1>2. CASE Fail(p) /\ UNCHANGED <<root, missing>>
  BY <1>1, <1>2, EndKeeps DEF Fail
<1>3. ASSUME entry[baseAt].kind \in {"none", "dir"},
             root' = [root EXCEPT ![p] = IF entry[baseAt].kind = "dir" THEN entry[baseAt].dir ELSE baseAt],
             missing' = [missing EXCEPT ![p] = entry[baseAt].kind = "none"],
             Goto(p, "validate")
      PROVE  IInv'
  <2>1. "validate" \in Labels  BY DEF Labels, Pinning
  <2>2. /\ pc' \in [Procs -> Labels] /\ pc'[p] = "validate"
        /\ \A q \in Procs \ {p} : pc'[q] = pc[q]
    BY <1>3, <2>1, GotoOnly
  <2>3. baseAt \in Bases /\ entry[baseAt] \in Entries  BY DEF IInv, Typed
  <2>4. entry[baseAt].kind = "dir" => entry[baseAt].dir \in Dirs  BY <2>3, EntryLeads
  <2>5. /\ root' \in [Procs -> Dirs \cup Bases \cup {None}]
        /\ \A q \in Procs \ {p} : root'[q] = root[q]
        /\ entry[baseAt].kind = "dir" => root'[p] \in Dirs
        /\ entry[baseAt].kind # "dir" => root'[p] \in Bases
    BY <1>3, <2>3, <2>4 DEF IInv, Typed
  <2>6. /\ missing' \in [Procs -> BOOLEAN]
        /\ \A q \in Procs \ {p} : missing'[q] = missing[q]
        /\ missing'[p] = (entry[baseAt].kind = "none")
    BY <1>3 DEF IInv, Typed
  <2>7. Typed'  BY <1>1, <2>2, <2>5, <2>6 DEF IInv, Typed
  <2>8. Others(p)  BY <1>1, <2>2, <2>5, <2>6 DEF Others
  <2>9. Pins(p)'  BY <1>3, <2>2, <2>5, <2>6 DEF Pins, Checking
  <2>10. ~strayed'[p]  BY <1>1 DEF IInv, Tells, Pinning
  <2>11. Tells(p)'  BY <2>2, <2>10 DEF Tells, WillCheck, Checking
  <2> QED  BY <1>1, <2>7, <2>8, <2>9, <2>11, StepKeeps
<1> QED  BY <1>2, <1>3 DEF Open

LEMMA ValidateKeeps == ASSUME IInv, NEW p \in Procs, Validate(p) PROVE IInv'
<1>1. /\ pc[p] = "validate"
      /\ UNCHANGED <<baseAt, entry, plan, root, next, missing, strayed, index>>
  BY DEF Validate, disk
<1>2. CASE Fail(p)  BY <1>1, <1>2, EndKeeps DEF Fail
<1>3. CASE Goto(p, "create")
  <2>1. pc'[p] = "create"  BY <1>3, GotoOnly DEF Labels, Pinning
  <2>2. Pins(p)'  BY <1>1, <2>1 DEF IInv, Pins, Checking
  <2> QED  BY <1>1, <1>3, <2>2, PinningKeeps DEF Pinning
<1> QED  BY <1>2, <1>3 DEF Validate

LEMMA LookupKeeps == ASSUME IInv, NEW p \in Procs, Lookup(p) PROVE IInv'
<1>1. /\ pc[p] = "create"
      /\ UNCHANGED <<baseAt, entry, plan, root, next, missing, strayed, index>>
  BY DEF Lookup, disk
<1>2. CASE Fail(p)  BY <1>1, <1>2, EndKeeps DEF Fail
<1>3. ASSUME missing[p], NEW label \in {"mkdir", "enter"}, Goto(p, label) PROVE IInv'
  <2>1. pc'[p] = label  BY <1>3, GotoOnly DEF Labels, Pinning
  <2>2. root[p] \in Bases  BY <1>1, <1>3 DEF IInv, Pins
  <2>3. Pins(p)'  BY <1>1, <2>1, <2>2 DEF Pins, Checking
  <2> QED  BY <1>1, <1>3, <2>3, PinningKeeps DEF Pinning
<1>4. CASE ~missing[p] /\ LeadsHere(p) /\ Goto(p, "prepare")
  <2>1. pc'[p] = "prepare"  BY <1>4, GotoOnly DEF Labels, Checking
  <2>2. root[p] \in Dirs  BY <1>1, <1>4 DEF IInv, Pins
  <2>3. Pins(p)'  BY <1>1, <2>1, <2>2 DEF Pins
  <2>4. Reached' = root'[p]  BY <1>1, <1>4 DEF LeadsHere, Reached
  <2>5. Tells(p)'  BY <1>1, <2>1, <2>4, PinnedTells DEF Pinning
  <2> QED  BY <1>1, <1>4, <2>3, <2>5, GotoKeeps DEF Labels, Checking
<1>5. CASE missing[p]
  <2> DEFINE kind == entry[root[p]].kind
  <2>1. CASE kind = "none"  BY <1>3, <1>5, <2>1 DEF Lookup
  <2>2. CASE kind = "dir"  BY <1>3, <1>5, <2>2 DEF Lookup
  <2>3. CASE kind \notin {"none", "dir"}  BY <1>2, <1>5, <2>3 DEF Lookup
  <2> QED  BY <2>1, <2>2, <2>3
<1>6. CASE ~missing[p]
  BY <1>2, <1>4, <1>6 DEF Lookup
<1> QED  BY <1>5, <1>6

\* A directory that is made is not one that any command has pinned.
LEMMA MkdirKeeps == ASSUME IInv, NEW p \in Procs, Mkdir(p) PROVE IInv'
<1>1. /\ pc[p] = "mkdir" /\ root[p] \in Bases
      /\ UNCHANGED <<baseAt, plan, root, next, missing, strayed, index>>
  BY DEF Mkdir, IInv, Pins
<1>2. CASE entry' = entry /\ Fail(p)  BY <1>1, <1>2, EndKeeps DEF Fail
<1>3. ASSUME Goto(p, "enter") PROVE pc'[p] = "enter" /\ Pins(p)'
  <2>1. pc'[p] = "enter"  BY <1>3, GotoOnly DEF Labels, Pinning
  <2> QED  BY <1>1, <2>1 DEF Pins, Checking
<1>4. CASE entry' = entry /\ Goto(p, "enter")
  BY <1>1, <1>3, <1>4, PinningKeeps DEF Pinning
<1>5. ASSUME NEW d \in Dirs, entry[root[p]] = Nothing, Unused(d),
             entry' = [entry EXCEPT ![root[p]] = Directory(d)], Goto(p, "enter")
      PROVE  IInv'
  <2>1. /\ pc' \in [Procs -> Labels] /\ pc'[p] = "enter"
        /\ \A q \in Procs \ {p} : pc'[q] = pc[q]
    BY <1>5, GotoOnly DEF Labels, Pinning
  <2>2. Directory(d) \in Entries /\ Directory(d).dir = d /\ Nothing.dir = None
    BY DEF Entries, Directory, Nothing
  <2>3. entry' \in [Bases -> Entries] /\ entry'[root[p]] = Directory(d)
        /\ \A b \in Bases : b # root[p] => entry'[b] = entry[b]
    BY <1>1, <1>5, <2>2 DEF IInv, Typed
  <2>4. Typed'  BY <1>1, <2>1, <2>3 DEF IInv, Typed
  <2>5. ASSUME NEW q \in Procs, q # p PROVE Pins(q)' /\ Tells(q)'
    <3>1. pc'[q] = pc[q]  BY <2>1, <2>5
    <3>2. Pins(q)'  BY <1>1, <3>1 DEF IInv, Pins
    <3>3. Writes(q)' = Writes(q)  BY <1>1 DEF Writes
    <3>4. WillCheck(q)' = WillCheck(q)  BY <1>1, <3>1, <3>3 DEF WillCheck
    <3>5. WillCheck(q) => (Reached' # root[q] <=> Reached # root[q])
      <4>1. CASE root[p] = baseAt
        <5>1. Reached = None /\ Reached' = d  BY <1>1, <1>5, <2>2, <2>3, <4>1 DEF Reached
        <5>2. d # root[q]  BY <1>5 DEF Unused
        <5>3. WillCheck(q) => root[q] # None
          BY ArchiveAssumption DEF IInv, Pins, WillCheck, Checking
        <5> QED  BY <5>1, <5>2, <5>3
      <4>2. CASE root[p] # baseAt
        BY <1>1, <2>3, <4>2 DEF Reached, IInv, Typed
      <4> QED  BY <4>1, <4>2
    <3>6. Tells(q)'  BY <1>1, <3>1, <3>4, <3>5 DEF IInv, Tells
    <3> QED  BY <3>2, <3>6
  <2>6. ~strayed'[p]  BY <1>1 DEF IInv, Tells, Pinning
  <2>7. Tells(p)'  BY <2>1, <2>6 DEF Tells, WillCheck, Checking
  <2> QED  BY <1>3, <1>5, <2>4, <2>5, <2>7 DEF IInv
<1> QED  BY <1>2, <1>4, <1>5 DEF Mkdir

LEMMA EnterKeeps == ASSUME IInv, NEW p \in Procs, Enter(p) PROVE IInv'
<1>1. /\ pc[p] = "enter" /\ root[p] \in Bases
      /\ UNCHANGED <<baseAt, entry, plan, root, missing, strayed, index>>
  BY DEF Enter, disk, IInv, Pins
<1>2. CASE Fail(p) /\ next' = next  BY <1>1, <1>2, EndKeeps DEF Fail
<1>3. CASE /\ entry[root[p]].dir # None /\ Goto(p, "recheck")
           /\ next' = [next EXCEPT ![p] = entry[root[p]].dir]
  <2>1. /\ pc' \in [Procs -> Labels] /\ pc'[p] = "recheck"
        /\ \A q \in Procs \ {p} : pc'[q] = pc[q]
    BY <1>3, GotoOnly DEF Labels, Pinning
  <2>2. entry[root[p]] \in Entries  BY <1>1 DEF IInv, Typed
  <2>3. entry[root[p]].dir \in Dirs  BY <1>3, <2>2, EntryLeads
  <2>4. /\ next' \in [Procs -> Dirs \cup {None}] /\ next'[p] \in Dirs
        /\ \A q \in Procs \ {p} : next'[q] = next[q]
    BY <1>3, <2>3 DEF IInv, Typed
  <2>5. Typed'  BY <1>1, <2>1, <2>4 DEF IInv, Typed
  <2>6. Others(p)  BY <1>1, <2>1, <2>4 DEF Others
  <2>7. Pins(p)'  BY <1>1, <2>1, <2>4 DEF Pins, Checking
  <2>8. ~strayed'[p]  BY <1>1 DEF IInv, Tells, Pinning
  <2>9. Tells(p)'  BY <2>1, <2>8 DEF Tells, WillCheck, Checking
  <2> QED  BY <1>1, <2>5, <2>6, <2>7, <2>9, StepKeeps
<1> QED  BY <1>2, <1>3 DEF Enter

LEMMA RecheckKeeps == ASSUME IInv, NEW p \in Procs, Recheck(p) PROVE IInv'
<1>1. /\ pc[p] = "recheck" /\ next[p] \in Dirs
      /\ UNCHANGED <<baseAt, entry, plan, next, missing, strayed, index>>
  BY DEF Recheck, disk, IInv, Pins
<1>2. CASE Fail(p) /\ root' = root  BY <1>1, <1>2, EndKeeps DEF Fail
<1>3. ASSUME root' = [root EXCEPT ![p] = next[p]],
             NEW label \in {"prepare", "failed"}, Goto(p, label),
             label = "prepare" => Reached = next[p]
      PROVE  IInv'
  <2>1. /\ pc' \in [Procs -> Labels] /\ pc'[p] = label
        /\ \A q \in Procs \ {p} : pc'[q] = pc[q]
    BY <1>3, GotoOnly DEF Labels, Checking, Ended
  <2>2. /\ root' \in [Procs -> Dirs \cup Bases \cup {None}] /\ root'[p] = next[p]
        /\ \A q \in Procs \ {p} : root'[q] = root[q]
    BY <1>1, <1>3 DEF IInv, Typed
  <2>3. Typed'  BY <1>1, <2>1, <2>2 DEF IInv, Typed
  <2>4. Others(p)  BY <1>1, <2>1, <2>2 DEF Others
  <2>5. Pins(p)'  BY <1>1, <2>1, <2>2 DEF Pins
  <2>6. Tells(p)'
    <3>1. CASE label = "failed"  BY <2>1, <3>1 DEF Tells, WillCheck, Checking, Pinning
    <3>2. CASE label = "prepare"
      <4>1. Reached' = root'[p]  BY <1>1, <1>3, <2>2, <3>2 DEF Reached
      <4> QED  BY <1>1, <2>1, <3>2, <4>1, PinnedTells DEF Pinning
    <3> QED  BY <3>1, <3>2
  <2> QED  BY <1>1, <2>3, <2>4, <2>5, <2>6, StepKeeps
<1> QED  BY <1>2, <1>3 DEF Recheck, Fail

-----------------------------------------------------------------------------
(* Writing the archives *)

\* Commands that only go on keep what the next check will tell.
LEMMA CheckingKeeps ==
    ASSUME IInv, NEW p \in Procs, pc[p] \in Checking, WillCheck(p),
           NEW label \in Checking \ {"prepare"}, Goto(p, label),
           UNCHANGED <<baseAt, entry, plan, root, next, missing, strayed, index>>
    PROVE  IInv'
<1>1. label \in Labels /\ label \notin Pinning \cup {"ok", "commit"}
  BY DEF Labels, Pinning, Checking
<1>2. pc'[p] = label  BY <1>1, GotoOnly
<1>3. Pins(p)'  BY <1>1, <1>2 DEF IInv, Pins, Pinning
<1>4. Tells(p)'  BY <1>1, <1>2 DEF IInv, Tells, WillCheck, Reached
<1> QED  BY <1>1, <1>3, <1>4, GotoKeeps

LEMMA PrepareKeeps == ASSUME IInv, NEW p \in Procs, Prepare(p) PROVE IInv'
<1>1. /\ pc[p] = "prepare"
      /\ UNCHANGED <<baseAt, entry, plan, root, next, missing, strayed, index>>
  BY DEF Prepare, disk
<1>2. CASE Fail(p)  BY <1>1, <1>2, EndKeeps DEF Fail
<1>3. CASE Writes(p) = <<>> /\ Goto(p, "ok")
  <2>1. pc'[p] = "ok"  BY <1>3, GotoOnly DEF Labels, Ended
  <2>2. Pins(p)'  BY <2>1 DEF Pins, Checking
  <2>3. ~strayed'[p]  BY <1>1, <1>3 DEF IInv, Tells, WillCheck
  <2>4. Tells(p)'  BY <2>1, <2>3 DEF Tells, WillCheck
  <2> QED  BY <1>1, <1>3, <2>2, <2>4, GotoKeeps DEF Labels, Ended
<1>4. CASE Writes(p) # <<>> /\ Goto(p, "begin")
  <2>1. WillCheck(p)  BY <1>1, <1>4 DEF WillCheck
  <2> QED  BY <1>1, <1>4, <2>1, CheckingKeeps DEF Checking
<1> QED  BY <1>2, <1>3, <1>4 DEF Prepare

LEMMA WriteKeeps ==
    ASSUME IInv, NEW p \in Procs, Begin(p) \/ Fill(p) PROVE IInv'
<1>1. /\ pc[p] \in Checking /\ WillCheck(p)
      /\ UNCHANGED <<baseAt, entry, plan, root, next, missing, strayed, index>>
  BY DEF Begin, Fill, disk, Checking, WillCheck
<1>2. Goto(p, "failed") \/ Goto(p, "fill") \/ Goto(p, "check")
  BY DEF Begin, Fill, Fail
<1> QED  BY <1>1, <1>2, EndKeeps, CheckingKeeps DEF Checking

LEMMA CheckKeeps == ASSUME IInv, NEW p \in Procs, Check(p) PROVE IInv'
<1>1. /\ pc[p] = "check"
      /\ UNCHANGED <<baseAt, entry, plan, root, next, missing, strayed, index>>
  BY DEF Check, disk
<1>2. CASE Fail(p)  BY <1>1, <1>2, EndKeeps DEF Fail
<1>3. CASE LeadsHere(p) /\ Goto(p, "commit")
  <2>1. pc'[p] = "commit"  BY <1>3, GotoOnly DEF Labels
  <2>2. Pins(p)'  BY <1>1, <2>1 DEF IInv, Pins, Checking
  <2>3. Reached = root[p] /\ ~strayed[p]
    BY <1>1, <1>3 DEF IInv, Tells, WillCheck, LeadsHere, Checking
  <2>4. Tells(p)'  BY <1>1, <2>1, <2>3 DEF Tells, Reached, Pinning, WillCheck
  <2> QED  BY <1>1, <1>3, <2>2, <2>4, GotoKeeps DEF Labels
<1> QED  BY <1>2, <1>3 DEF Check

LEMMA CommitKeeps == ASSUME IInv, NEW p \in Procs, Commit(p) PROVE IInv'
<1>1. /\ pc[p] = "commit" /\ UNCHANGED <<baseAt, entry, plan, root, next, missing, strayed>>
  BY DEF Commit
<1>2. CASE index[p] = Len(Writes(p)) /\ Goto(p, "ok") /\ index' = index
  <2>1. pc'[p] = "ok"  BY <1>2, GotoOnly DEF Labels, Ended
  <2>2. Pins(p)'  BY <2>1 DEF Pins, Checking
  <2>3. ~strayed'[p]  BY <1>1, <1>2 DEF IInv, Tells, WillCheck, Checking
  <2>4. Tells(p)'  BY <2>1, <2>3 DEF Tells, WillCheck, Checking
  <2> QED  BY <1>1, <1>2, <2>2, <2>4, GotoKeeps DEF Labels, Ended
<1>3. CASE index[p] # Len(Writes(p)) /\ Goto(p, "begin") /\ index' = [index EXCEPT ![p] = @ + 1]
  <2>1. /\ pc' \in [Procs -> Labels] /\ pc'[p] = "begin"
        /\ \A q \in Procs \ {p} : pc'[q] = pc[q]
    BY <1>3, GotoOnly DEF Labels, Checking
  <2>2. /\ index' \in [Procs -> Nat]
        /\ \A q \in Procs \ {p} : index'[q] = index[q]
    BY <1>3 DEF IInv, Typed
  <2>3. Typed'  BY <1>1, <2>1, <2>2 DEF IInv, Typed
  <2>4. Others(p)  BY <1>1, <2>1, <2>2 DEF Others
  <2>5. Pins(p)'  BY <1>1, <2>1 DEF IInv, Pins, Checking
  <2>6. strayed[p] <=> Reached # root[p]  BY <1>1, <1>3 DEF IInv, Tells, WillCheck
  <2>7. Tells(p)'  BY <1>1, <2>1, <2>6 DEF Tells, WillCheck, Checking, Pinning, Reached
  <2> QED  BY <1>1, <2>3, <2>4, <2>5, <2>7, StepKeeps
<1> QED  BY <1>2, <1>3 DEF Commit

-----------------------------------------------------------------------------
(* The environment *)

\* A move notes who will find out.
LEMMA MoveKeeps == ASSUME IInv, Move PROVE IInv'
<1>1. Stray /\ UNCHANGED <<pc, plan, root, missing, next, index>>  BY DEF Move
<1>2. baseAt' \in Bases /\ entry' \in [Bases -> Entries]
  <2>1. CASE baseAt' \in Bases \ {baseAt} /\ UNCHANGED entry  BY <2>1 DEF IInv, Typed
  <2>2. ASSUME NEW b \in Bases, NEW e \in Entries, entry' = [entry EXCEPT ![b] = e],
               UNCHANGED baseAt
        PROVE  baseAt' \in Bases /\ entry' \in [Bases -> Entries]
    BY <2>2 DEF IInv, Typed
  <2> QED  BY <2>1, <2>2 DEF Move
<1>3. \A p \in Procs : strayed'[p] =
          IF WillCheck(p) THEN root[p] # Reached' ELSE strayed[p]
  BY <1>1 DEF Stray, WillCheck, Reached, Checking
<1>4. strayed' \in [Procs -> BOOLEAN]
  <2>1. \A p \in Procs : strayed'[p] \in BOOLEAN  BY <1>3 DEF IInv, Typed
  <2>2. strayed' = [p \in Procs |-> strayed'[p]]  BY <1>1 DEF Stray
  <2> QED  BY <2>1, <2>2
<1>5. Typed'  BY <1>1, <1>2, <1>4 DEF IInv, Typed
<1>6. ASSUME NEW p \in Procs PROVE Pins(p)' /\ Tells(p)'
  <2>1. Pins(p)'  BY <1>1 DEF IInv, Pins
  <2>2. Writes(p)' = Writes(p)  BY <1>1 DEF Writes
  <2>3. WillCheck(p)' = WillCheck(p)  BY <1>1, <2>2 DEF WillCheck
  <2>4. pc[p] \in Pinning \cup {"ok"} => ~WillCheck(p)
    BY DEF WillCheck, Pinning, Checking
  <2>5. Tells(p)'  BY <1>1, <1>3, <2>3, <2>4 DEF IInv, Tells
  <2> QED  BY <2>1, <2>5
<1> QED  BY <1>5, <1>6 DEF IInv

LEMMA EditKeeps == ASSUME IInv, Edit PROVE IInv'
<1>1. /\ pc' = [p \in Procs |-> "idle"]
      /\ UNCHANGED <<baseAt, entry, plan, root, next, missing, strayed, index>>
  BY DEF Edit, locals
<1>2. pc' \in [Procs -> Labels]  BY <1>1 DEF Labels, Ended
<1>3. Typed'  BY <1>1, <1>2 DEF IInv, Typed
<1>4. \A p \in Procs : Pins(p)'  BY <1>1 DEF Pins, Checking
<1>5. \A p \in Procs : Tells(p)'  BY <1>1 DEF Tells, WillCheck, Pinning, Checking
<1> QED  BY <1>3, <1>4, <1>5 DEF IInv

LEMMA StutterKeeps == ASSUME IInv, UNCHANGED vars PROVE IInv'
<1>1. UNCHANGED <<baseAt, entry, pc, plan, root, next, missing, strayed, index>>
  BY DEF vars, disk, locals
<1>2. Typed'  BY <1>1 DEF IInv, Typed
<1>3. ASSUME NEW p \in Procs PROVE Pins(p)' /\ Tells(p)'
  <2>1. Writes(p)' = Writes(p)  BY <1>1 DEF Writes
  <2> QED  BY <1>1, <2>1 DEF IInv, Pins, Tells, WillCheck, Reached
<1> QED  BY <1>2, <1>3 DEF IInv

LEMMA NextKeeps == ASSUME IInv, [Next]_vars PROVE IInv'
<1>1. CASE Move \/ Edit \/ UNCHANGED vars  BY <1>1, MoveKeeps, EditKeeps, StutterKeeps
<1>2. ASSUME NEW p \in Procs, Start(p) \/ Step(p) PROVE IInv'
  BY <1>2, StartKeeps, OpenKeeps, ValidateKeeps, LookupKeeps, MkdirKeeps, EnterKeeps,
     RecheckKeeps, PrepareKeeps, WriteKeeps, CheckKeeps, CommitKeeps DEF Step
<1>3. ASSUME NEW p \in Procs, Fault(p) PROVE IInv'
  BY <1>3, EndKeeps DEF Fault, Fail, disk
<1>4. ASSUME NEW p \in Procs, Kill(p) PROVE IInv'
  BY <1>4, EndKeeps DEF Kill, disk, locals
<1> QED  BY <1>1, <1>2, <1>3, <1>4 DEF Next

LEMMA InitHolds == Init => IInv
<1> SUFFICES ASSUME Init PROVE IInv
  OBVIOUS
<1>1. entry \in [Bases -> Entries]
  <2>1. PICK e \in {Nothing} \cup {Directory(d) : d \in Dirs} :
          entry = [b \in Bases |-> IF b = baseAt THEN e ELSE Nothing]
    BY DEF Init
  <2>2. e \in Entries /\ Nothing \in Entries  BY DEF Entries
  <2> QED  BY <2>1, <2>2
<1>2. pc \in [Procs -> Labels] /\ \A p \in Procs : pc[p] = "idle"
  BY DEF Init, Labels, Ended
<1>3. Typed
  <2>1. plan \in [Procs -> Plans \cup {SomePlan}]  BY DEF Init, SomePlan
  <2>2. root \in [Procs -> Dirs \cup Bases \cup {None}]  BY DEF Init
  <2>3. next \in [Procs -> Dirs \cup {None}]  BY DEF Init
  <2>4. missing \in [Procs -> BOOLEAN] /\ strayed \in [Procs -> BOOLEAN]  BY DEF Init
  <2>5. index \in [Procs -> Nat]  BY DEF Init
  <2>6. baseAt \in Bases  BY DEF Init
  <2> QED  BY <1>1, <1>2, <2>1, <2>2, <2>3, <2>4, <2>5, <2>6 DEF Typed
<1>4. \A p \in Procs : Pins(p)  BY <1>2 DEF Pins, Checking
<1>5. \A p \in Procs : Tells(p)  BY <1>2 DEF Tells, WillCheck, Pinning, Checking
<1> QED  BY <1>3, <1>4, <1>5 DEF IInv

-----------------------------------------------------------------------------
(* The theorems *)

\* What a command has pinned, and what its next check will tell.
THEOREM DestinationInvariant == Spec => []IInv
  BY InitHolds, NextKeeps, PTL DEF Spec

\* A command whose path had been moved away before the check of the last
\* archive does not succeed (verifyIdentity).
THEOREM MovedFails == Spec => []MovedFailsClosed
<1>1. IInv => MovedFailsClosed  BY DEF IInv, Tells, MovedFailsClosed
<1> QED  BY <1>1, DestinationInvariant, PTL

-----------------------------------------------------------------------------
(* What the archives hold *)

Names == {Fold[s] : s \in DOMAIN Fold}
Archives ==
    UNION {UNION {{Archive(t, u) : u \in ToSet(t.units)} : t \in ToSet(pl.targets)} : pl \in Plans}
Stored == [data : {None, Junk} \cup Archives, stamp : {0, 1}]
Writing == {"begin", "fill", "check", "commit"}

StoreTyped ==
    /\ store \in [Dirs -> [Names -> Stored]]
    /\ temp \in [Procs -> {"none", "partial", "whole"}]
    /\ equal \in [Procs -> BOOLEAN]
    /\ alone \in [Procs -> BOOLEAN]

\* What a command has checked of its plan, and what it is about to publish.
Ready(p) ==
    /\ Running(p) \/ pc[p] = "ok" => plan[p] \in Plans
    /\ pc[p] \in Pinning \cup {"prepare"} => index[p] = 1
    /\ pc[p] \in (Pinning \ {"open", "validate"}) \cup {"prepare"} => ValidPlan(plan[p])
    /\ pc[p] \in Writing \cup {"ok"} => ValidPlan(plan[p]) /\ Accepted(plan[p])
    /\ pc[p] \in Writing => index[p] \in 1..Len(Writes(p))
    /\ pc[p] \in {"check", "commit"} => temp[p] = "whole"

\* The i-th archive is in place.
InPlace(p, i) == store[root[p]][Writes(p)[i].key].data = Writes(p)[i].data

\* No other command runs beside one that counts as alone,
Alone(p) == alone[p] => \A q \in Procs \ {p} : ~Running(q)

\* and it knows what is in place.
Stands(p) ==
    alone[p] =>
        /\ pc[p] \in Writing => \A i \in 1..(index[p] - 1) : InPlace(p, i)
        /\ pc[p] = "ok" => \A i \in 1..Len(Writes(p)) : InPlace(p, i)
        /\ pc[p] = "commit" => (equal[p] <=> InPlace(p, index[p]))

Kept ==
    /\ IInv /\ StoreTyped /\ ArchivesAreWhole
    /\ \A p \in Procs : Ready(p) /\ Alone(p) /\ Stands(p)

-----------------------------------------------------------------------------
(* The archives in the order they are written *)

\* What holds of one, and of a number's successor, holds of all up to n.
LEMMA UpTo ==
    ASSUME NEW n \in Nat, NEW T, 1 \in T, \A k \in T : k \in 1..(n - 1) => k + 1 \in T
    PROVE  1..n \subseteq T
<1> SUFFICES ASSUME ~(1..n \subseteq T) PROVE FALSE
  OBVIOUS
<1> DEFINE B == (1..n) \ T
<1>1. B \subseteq Nat /\ B # {}  OBVIOUS
<1>2. PICK m \in B : \A k \in B : ~(<<k, m>> \in OpToRel(<, Nat))
  BY <1>1, NatLessThanWellFounded, WFMin
<1>3. m \in 1..n /\ m \notin T /\ m # 1  BY <1>2
<1>4. m - 1 \in 1..(n - 1) /\ (m - 1) + 1 = m /\ m - 1 < m  BY <1>3
<1>5. m - 1 \notin T  BY <1>3, <1>4
<1>6. m - 1 \in B /\ m - 1 \in Nat /\ m \in Nat  BY <1>3, <1>4, <1>5
<1>7. <<m - 1, m>> \in OpToRel(<, Nat)
  <2>1. <<m - 1, m>> \in Nat \X Nat /\ <<m - 1, m>>[1] < <<m - 1, m>>[2]  BY <1>4, <1>6
  <2> QED  BY <2>1 DEF OpToRel
<1> QED  BY <1>2, <1>6, <1>7

\* g joins the first i sequences, for each i up to k.
Joins(g, seqs, k) ==
    \A i \in 1..k : g[i] = IF i = 1 THEN seqs[i] ELSE g[i - 1] \o seqs[i]

LEMMA JoinExists ==
    ASSUME NEW E, NEW seqs \in Seq(Seq(E)), seqs # <<>>
    PROVE  \E g \in [1..Len(seqs) -> Seq(E)] : Joins(g, seqs, Len(seqs))
<1> DEFINE n == Len(seqs)
           T == {k \in Nat : \E g \in [1..k -> Seq(E)] : Joins(g, seqs, k)}
<1>1. n \in Nat /\ n # 0 /\ \A i \in 1..n : seqs[i] \in Seq(E)  OBVIOUS
<1>2. 1 \in T
  <2> DEFINE g == [i \in 1..1 |-> seqs[1]]
  <2>1. g \in [1..1 -> Seq(E)]  BY <1>1
  <2>2. Joins(g, seqs, 1)  BY DEF Joins
  <2> QED  BY <2>1, <2>2
<1>3. ASSUME NEW k \in T, k \in 1..(n - 1) PROVE k + 1 \in T
  <2>1. PICK g \in [1..k -> Seq(E)] : Joins(g, seqs, k)  BY <1>3
  <2> DEFINE h == [i \in 1..(k + 1) |-> IF i = k + 1 THEN g[k] \o seqs[k + 1] ELSE g[i]]
  <2>2. g[k] \in Seq(E) /\ seqs[k + 1] \in Seq(E)  BY <1>1, <1>3
  <2>3. g[k] \o seqs[k + 1] \in Seq(E)  BY <2>2
  <2>4. h \in [1..(k + 1) -> Seq(E)]  BY <1>3, <2>3
  <2>5. ASSUME NEW i \in 1..(k + 1)
        PROVE  h[i] = IF i = 1 THEN seqs[i] ELSE h[i - 1] \o seqs[i]
    <3>1. CASE i = k + 1
      <4>1. i # 1 /\ i - 1 = k /\ h[i - 1] = g[k]  BY <1>3, <3>1
      <4> QED  BY <3>1, <4>1
    <3>2. CASE i # k + 1
      <4>1. i \in 1..k /\ h[i] = g[i]  BY <1>3, <3>2
      <4>2. i # 1 => i - 1 \in 1..k /\ i - 1 # k + 1 /\ h[i - 1] = g[i - 1]  BY <1>3, <4>1
      <4> QED  BY <2>1, <4>1, <4>2 DEF Joins
    <3> QED  BY <3>1, <3>2
  <2>6. Joins(h, seqs, k + 1)  BY <2>5 DEF Joins
  <2>7. k + 1 \in Nat  BY <1>3
  <2> QED  BY <2>4, <2>6, <2>7
<1> HIDE DEF T
<1>4. 1..n \subseteq T  BY <1>1, <1>2, <1>3, UpTo
<1>5. n \in 1..n  BY <1>1
<1>6. n \in T  BY <1>4, <1>5
<1> QED  BY <1>6 DEF T

\* A list and the lists it joins have the same members.
Holds(s, seqs, k) ==
    /\ \A i \in DOMAIN s : \E t \in 1..k : \E u \in DOMAIN seqs[t] : s[i] = seqs[t][u]
    /\ \A t \in 1..k : \A u \in DOMAIN seqs[t] : \E i \in DOMAIN s : s[i] = seqs[t][u]

LEMMA FlattenHolds ==
    ASSUME NEW E, NEW seqs \in Seq(Seq(E))
    PROVE  FlattenSeq(seqs) \in Seq(E) /\ Holds(FlattenSeq(seqs), seqs, Len(seqs))
<1> DEFINE n == Len(seqs)
<1>1. CASE n = 0
  <2>1. FlattenSeq(seqs) = seqs  BY <1>1 DEF FlattenSeq
  <2>2. seqs = <<>> /\ seqs \in Seq(E)  BY <1>1
  <2> QED  BY <1>1, <2>1, <2>2 DEF Holds
<1>2. CASE n # 0
  <2> DEFINE IsFlatten(f) == f = [i \in 1..n |-> IF i = 1 THEN seqs[i] ELSE f[i - 1] \o seqs[i]]
             f == CHOOSE g : IsFlatten(g)
  <2>1. FlattenSeq(seqs) = f[n]  BY <1>2 DEF FlattenSeq
  <2>2. seqs # <<>> /\ n \in Nat /\ \A i \in 1..n : seqs[i] \in Seq(E)  BY <1>2
  <2>3. PICK g \in [1..n -> Seq(E)] : Joins(g, seqs, n)  BY <2>2, JoinExists
  <2>4. IsFlatten(g)
    <3> DEFINE h == [i \in 1..n |-> IF i = 1 THEN seqs[i] ELSE g[i - 1] \o seqs[i]]
    <3>1. \A i \in 1..n : g[i] = h[i]  BY <2>3 DEF Joins
    <3>2. g = [i \in 1..n |-> g[i]]  BY <2>3
    <3>3. h = [i \in 1..n |-> h[i]]  OBVIOUS
    <3> HIDE DEF h
    <3>4. g = h  BY <3>1, <3>2, <3>3
    <3> QED  BY <3>4 DEF h
  <2>5. IsFlatten(f)
    <3> HIDE DEF IsFlatten
    <3> QED  BY <2>4
  <2> HIDE DEF f
  <2>6. \A i \in 1..n : f[i] = IF i = 1 THEN seqs[i] ELSE f[i - 1] \o seqs[i]  BY <2>5
  <2> HIDE DEF IsFlatten
  <2> DEFINE T == {k \in 1..n : f[k] \in Seq(E) /\ Holds(f[k], seqs, k)}
  <2>7. 1 \in T
    <3>1. 1 \in 1..n /\ f[1] = seqs[1]  BY <1>2, <2>2, <2>6
    <3>2. Holds(seqs[1], seqs, 1)  BY DEF Holds
    <3> QED  BY <2>2, <3>1, <3>2
  <2>8. ASSUME NEW k \in T, k \in 1..(n - 1) PROVE k + 1 \in T
    <3>1. k + 1 \in 1..n /\ k + 1 # 1 /\ (k + 1) - 1 = k  BY <2>2, <2>8
    <3>2. f[k + 1] = f[k] \o seqs[k + 1]  BY <2>6, <3>1
    <3>3. f[k] \in Seq(E) /\ seqs[k + 1] \in Seq(E)  BY <2>2, <3>1
    <3> DEFINE a == f[k]  b == seqs[k + 1]  c == f[k + 1]
    <3>4. c \in Seq(E) /\ Len(c) = Len(a) + Len(b)  BY <3>2, <3>3
    <3>5. \A i \in DOMAIN c : c[i] = IF i <= Len(a) THEN a[i] ELSE b[i - Len(a)]
      BY <3>2, <3>3
    <3>6. a \in Seq(E) /\ b \in Seq(E)  BY <3>3
    <3>7. Holds(a, seqs, k)  BY <2>8
    <3> HIDE DEF a, b, c
    <3>8. /\ Len(a) \in Nat /\ DOMAIN a = 1..Len(a)
           /\ Len(b) \in Nat /\ DOMAIN b = 1..Len(b)
           /\ DOMAIN c = 1..Len(c)
      BY <3>4, <3>6
    <3>9. ASSUME NEW i \in DOMAIN c
          PROVE  \E t \in 1..(k + 1) : \E u \in DOMAIN seqs[t] : c[i] = seqs[t][u]
      <4>1. CASE i <= Len(a)
        <5>1. i \in DOMAIN a /\ c[i] = a[i]  BY <3>5, <3>8, <3>4, <4>1
        <5>2. PICK t \in 1..k : \E u \in DOMAIN seqs[t] : a[i] = seqs[t][u]
          BY <3>7, <5>1 DEF Holds
        <5>3. t \in 1..(k + 1)  BY <3>1, <2>8
        <5> QED  BY <5>1, <5>2, <5>3
      <4>2. CASE ~(i <= Len(a))
        <5>1. i - Len(a) \in DOMAIN b /\ c[i] = b[i - Len(a)]  BY <3>4, <3>5, <3>8, <4>2
        <5>2. k + 1 \in 1..(k + 1)  BY <3>1
        <5> QED  BY <5>1, <5>2 DEF b
      <4> QED  BY <4>1, <4>2
    <3>10. ASSUME NEW t \in 1..(k + 1), NEW u \in DOMAIN seqs[t]
          PROVE  \E i \in DOMAIN c : c[i] = seqs[t][u]
      <4>1. CASE t \in 1..k
        <5>1. PICK i \in DOMAIN a : a[i] = seqs[t][u]  BY <3>7, <4>1 DEF Holds
        <5>2. i \in DOMAIN c /\ c[i] = a[i]  BY <3>4, <3>5, <3>8
        <5> QED  BY <5>1, <5>2
      <4>2. CASE t = k + 1
        <5>1. u \in 1..Len(b)  BY <3>8, <4>2 DEF b
        <5>2. u + Len(a) \in 1..(Len(a) + Len(b))  BY <3>8, <5>1
        <5>3. u + Len(a) \in DOMAIN c  BY <3>4, <3>8, <5>2
        <5>4. ~(u + Len(a) <= Len(a)) /\ (u + Len(a)) - Len(a) = u  BY <3>8, <5>1
        <5>5. c[u + Len(a)] = b[u]  BY <3>5, <5>3, <5>4
        <5> QED  BY <4>2, <5>3, <5>5 DEF b
      <4> QED  BY <2>8, <4>1, <4>2
    <3>11. Holds(c, seqs, k + 1)  BY <3>9, <3>10 DEF Holds
    <3> QED  BY <3>1, <3>4, <3>11 DEF c
  <2> HIDE DEF T
  <2>9. 1..n \subseteq T  BY <2>2, <2>7, <2>8, UpTo
  <2>10. n \in 1..n  BY <1>2, <2>2
  <2>11. n \in T  BY <2>9, <2>10
  <2> QED  BY <2>1, <2>11 DEF T
<1> QED  BY <1>1, <1>2

Item(pl, s) == [key |-> Key(UnitAt(pl, s)),
                data |-> Archive(pl.targets[s[1]], UnitAt(pl, s))]
Items == [key : Names, data : Archives]

\* A plan's targets and their units.
LEMMA PlanParts ==
    ASSUME NEW pl \in Plans
    PROVE  /\ DOMAIN pl.targets = 1..Len(pl.targets) /\ Len(pl.targets) \in Nat
           /\ \A t \in DOMAIN pl.targets :
                /\ pl.targets[t] \in ToSet(pl.targets)
                /\ DOMAIN pl.targets[t].units = 1..Len(pl.targets[t].units)
                /\ Len(pl.targets[t].units) \in Nat
                /\ \A u \in DOMAIN pl.targets[t].units :
                      /\ <<t, u>> \in Slots(pl)
                      /\ UnitAt(pl, <<t, u>>) = pl.targets[t].units[u]
                      /\ pl.targets[t].units[u] \in ToSet(pl.targets[t].units)
           /\ \A s \in Slots(pl) :
                /\ s = <<s[1], s[2]>> /\ s[1] \in DOMAIN pl.targets
                /\ s[2] \in DOMAIN pl.targets[s[1]].units
                /\ Item(pl, s) \in Items
<1>1. pl.targets \in Seq(ToSet(pl.targets))  BY PlansAssumption
<1>2. DOMAIN pl.targets = 1..Len(pl.targets) /\ Len(pl.targets) \in Nat  BY <1>1
<1>3. ASSUME NEW t \in DOMAIN pl.targets
      PROVE  /\ pl.targets[t] \in ToSet(pl.targets)
             /\ DOMAIN pl.targets[t].units = 1..Len(pl.targets[t].units)
             /\ Len(pl.targets[t].units) \in Nat
             /\ \A u \in DOMAIN pl.targets[t].units :
                   /\ <<t, u>> \in Slots(pl)
                   /\ UnitAt(pl, <<t, u>>) = pl.targets[t].units[u]
                   /\ pl.targets[t].units[u] \in ToSet(pl.targets[t].units)
  <2>1. pl.targets[t] \in ToSet(pl.targets)  BY DEF ToSet
  <2>2. pl.targets[t].units \in Seq(ToSet(pl.targets[t].units))  BY <2>1, PlansAssumption
  <2>3. ASSUME NEW u \in DOMAIN pl.targets[t].units
        PROVE  /\ <<t, u>> \in Slots(pl)
               /\ UnitAt(pl, <<t, u>>) = pl.targets[t].units[u]
               /\ pl.targets[t].units[u] \in ToSet(pl.targets[t].units)
    BY DEF Slots, UnitAt, ToSet
  <2> QED  BY <2>1, <2>2, <2>3
<1>4. ASSUME NEW s \in Slots(pl)
      PROVE  /\ s = <<s[1], s[2]>> /\ s[1] \in DOMAIN pl.targets
             /\ s[2] \in DOMAIN pl.targets[s[1]].units
             /\ Item(pl, s) \in Items
  <2>1. PICK t \in DOMAIN pl.targets : s \in {<<t, u>> : u \in DOMAIN pl.targets[t].units}
    BY DEF Slots
  <2>2. PICK u \in DOMAIN pl.targets[t].units : s = <<t, u>>  BY <2>1
  <2>3. s[1] = t /\ s[2] = u /\ UnitAt(pl, s) = pl.targets[t].units[u]  BY <2>2 DEF UnitAt
  <2>4. /\ pl.targets[t] \in ToSet(pl.targets)
        /\ pl.targets[t].units[u] \in ToSet(pl.targets[t].units)
    BY <1>3
  <2>5. Key(UnitAt(pl, s)) \in Names
    BY <2>3, <2>4, PlansAssumption DEF Key, Names
  <2>6. Archive(pl.targets[t], pl.targets[t].units[u]) \in Archives
    BY <2>4 DEF Archives
  <2> QED  BY <2>2, <2>3, <2>5, <2>6 DEF Item, Items
<1> QED  BY <1>2, <1>3, <1>4

\* The writes are the items of the plan's slots.
LEMMA WritesAreItems ==
    ASSUME NEW p \in Procs, plan[p] \in Plans
    PROVE  /\ Writes(p) \in Seq(Items)
           /\ \A i \in 1..Len(Writes(p)) : \E s \in Slots(plan[p]) : Writes(p)[i] = Item(plan[p], s)
           /\ \A s \in Slots(plan[p]) : \E i \in 1..Len(Writes(p)) : Writes(p)[i] = Item(plan[p], s)
<1> DEFINE pl == plan[p]
           Row(t) == [u \in DOMAIN pl.targets[t].units |->
                         [key |-> Key(pl.targets[t].units[u]),
                          data |-> Archive(pl.targets[t], pl.targets[t].units[u])]]
           rows == [t \in DOMAIN pl.targets |-> Row(t)]
<1>1. Writes(p) = FlattenSeq(rows)  BY DEF Writes
<1>2. ASSUME NEW t \in DOMAIN pl.targets, NEW u \in DOMAIN pl.targets[t].units
      PROVE  rows[t][u] = Item(pl, <<t, u>>) /\ rows[t][u] \in Items
  <2>1. /\ <<t, u>> \in Slots(pl) /\ UnitAt(pl, <<t, u>>) = pl.targets[t].units[u]
        /\ Item(pl, <<t, u>>) \in Items
    BY PlanParts
  <2>2. rows[t][u] = [key |-> Key(pl.targets[t].units[u]),
                      data |-> Archive(pl.targets[t], pl.targets[t].units[u])]
    OBVIOUS
  <2>3. <<t, u>>[1] = t  OBVIOUS
  <2> HIDE DEF rows
  <2> QED  BY <2>1, <2>2, <2>3 DEF Item
<1>3. ASSUME NEW t \in DOMAIN pl.targets
      PROVE  rows[t] \in Seq(Items) /\ DOMAIN rows[t] = DOMAIN pl.targets[t].units
  <2>1. DOMAIN pl.targets[t].units = 1..Len(pl.targets[t].units) /\ Len(pl.targets[t].units) \in Nat
    BY PlanParts
  <2>2. rows[t] = Row(t) /\ DOMAIN rows[t] = DOMAIN pl.targets[t].units  OBVIOUS
  <2>3. rows[t] \in [1..Len(pl.targets[t].units) -> Items]
    <3>1. \A u \in 1..Len(pl.targets[t].units) : Row(t)[u] \in Items  BY <1>2, <2>1, <2>2
    <3> QED  BY <2>1, <2>2, <3>1
  <2> HIDE DEF Row, rows
  <2> QED  BY <2>1, <2>2, <2>3
<1>4. rows \in Seq(Seq(Items)) /\ Len(rows) = Len(pl.targets)
  <2>1. DOMAIN pl.targets = 1..Len(pl.targets) /\ Len(pl.targets) \in Nat  BY PlanParts
  <2>2. rows \in [1..Len(pl.targets) -> Seq(Items)]  BY <1>3, <2>1
  <2> HIDE DEF rows
  <2> QED  BY <2>1, <2>2
<1> HIDE DEF rows
<1>5. Writes(p) \in Seq(Items) /\ Holds(Writes(p), rows, Len(rows))
  BY <1>1, <1>4, FlattenHolds
<1>6. DOMAIN Writes(p) = 1..Len(Writes(p)) /\ 1..Len(rows) = DOMAIN pl.targets
  BY <1>4, <1>5, PlanParts
<1>7. ASSUME NEW i \in 1..Len(Writes(p))
      PROVE  \E s \in Slots(pl) : Writes(p)[i] = Item(pl, s)
  <2>1. PICK t \in DOMAIN pl.targets : \E u \in DOMAIN rows[t] : Writes(p)[i] = rows[t][u]
    BY <1>5, <1>6 DEF Holds
  <2>2. PICK u \in DOMAIN pl.targets[t].units : Writes(p)[i] = rows[t][u]  BY <1>3, <2>1
  <2>3. <<t, u>> \in Slots(pl)  BY PlanParts
  <2> QED  BY <1>2, <2>2, <2>3
<1>8. ASSUME NEW s \in Slots(pl)
      PROVE  \E i \in 1..Len(Writes(p)) : Writes(p)[i] = Item(pl, s)
  <2>1. s = <<s[1], s[2]>> /\ s[1] \in DOMAIN pl.targets /\ s[2] \in DOMAIN pl.targets[s[1]].units
    BY PlanParts
  <2>2. s[1] \in 1..Len(rows) /\ s[2] \in DOMAIN rows[s[1]]  BY <1>3, <1>6, <2>1
  <2>3. \E i \in DOMAIN Writes(p) : Writes(p)[i] = rows[s[1]][s[2]]
    BY <1>5, <2>2 DEF Holds
  <2>4. rows[s[1]][s[2]] = Item(pl, <<s[1], s[2]>>)  BY <1>2, <2>1
  <2> QED  BY <1>6, <2>1, <2>3, <2>4
<1> QED  BY <1>5, <1>7, <1>8

\* Archives of one name are one archive.
LEMMA NamesTell ==
    ASSUME NEW p \in Procs, plan[p] \in Plans, Accepted(plan[p]),
           NEW i \in 1..Len(Writes(p)), NEW j \in 1..Len(Writes(p)),
           Writes(p)[i].key = Writes(p)[j].key
    PROVE  Writes(p)[i] = Writes(p)[j]
<1>1. PICK s \in Slots(plan[p]) : Writes(p)[i] = Item(plan[p], s)  BY WritesAreItems
<1>2. PICK r \in Slots(plan[p]) : Writes(p)[j] = Item(plan[p], r)  BY WritesAreItems
<1>3. Key(UnitAt(plan[p], s)) = Key(UnitAt(plan[p], r))  BY <1>1, <1>2 DEF Item
<1>4. s = r  BY <1>3 DEF Accepted, DistinctDestinations
<1> QED  BY <1>1, <1>2, <1>4

\* The name in the archive, below the unit's root, is the file.
LEMMA NameIsFile ==
    ASSUME NEW pl \in Plans, NEW t \in DOMAIN pl.targets,
           NEW u \in DOMAIN pl.targets[t].units, NEW f \in DOMAIN pl.targets[t].files,
           UnitContains(pl.targets[t].units[u], f)
    PROVE  pl.targets[t].units[u].root \o ArchiveName(f, pl.targets[t].units[u]) = f
<1> DEFINE r == pl.targets[t].units[u].root
<1>1. /\ pl.targets[t] \in ToSet(pl.targets)
      /\ pl.targets[t].units[u] \in ToSet(pl.targets[t].units)
  BY PlanParts
<1>2. f \in Seq(ToSet(f)) /\ r \in Seq(ToSet(r))  BY <1>1, PlansAssumption
<1>3. ArchiveName(f, pl.targets[t].units[u]) = SubSeq(f, Len(r) + 1, Len(f))
  BY DEF ArchiveName
<1>4. r = <<>> \/ IsStrictPrefix(r, f)  BY DEF UnitContains
<1> HIDE DEF r
<1> DEFINE n == Len(r)  m == Len(f)  b == SubSeq(f, n + 1, m)
<1>5. n \in Nat /\ m \in Nat /\ DOMAIN f = 1..m /\ DOMAIN r = 1..n  BY <1>2
<1>6. n <= m /\ \A i \in 1..n : r[i] = f[i]
  <2>1. CASE r = <<>>
    <3>1. n = 0  BY <2>1
    <3> QED  BY <1>5, <3>1
  <2>2. CASE IsStrictPrefix(r, f)
    <3>1. n <= m /\ SubSeq(r, 1, n) = SubSeq(f, 1, n)  BY <2>2 DEF IsStrictPrefix, IsPrefix
    <3>2. ASSUME NEW i \in 1..n PROVE r[i] = f[i]
      <4>1. SubSeq(r, 1, n)[i] = r[i]  BY <1>2, <1>5
      <4>2. SubSeq(f, 1, n)[i] = f[i]  BY <1>2, <1>5, <3>1
      <4> QED  BY <3>1, <4>1, <4>2
    <3> QED  BY <3>1, <3>2
  <2> QED  BY <1>4, <2>1, <2>2
<1>7. /\ b \in Seq(ToSet(f)) /\ Len(b) = m - n
      /\ \A i \in 1..(m - n) : b[i] = f[n + i]
  <2>1. \A i \in (n + 1)..m : f[i] \in ToSet(f)  BY <1>2, <1>5, <1>6
  <2>2. b = [i \in 1..(m - n) |-> f[n + i]]
    BY <1>5, <1>6 DEF b
  <2>3. m - n \in Nat /\ \A i \in 1..(m - n) : n + i \in (n + 1)..m  BY <1>5, <1>6
  <2>4. \A i \in 1..(m - n) : f[n + i] \in ToSet(f)  BY <2>1, <2>3
  <2> HIDE DEF b
  <2> QED  BY <2>2, <2>3, <2>4
<1> HIDE DEF b
<1>8. ASSUME NEW S, NEW x \in Seq(S), NEW y \in Seq(S), Len(x) + Len(y) = m,
             \A i \in 1..Len(x) : x[i] = f[i],
             \A i \in 1..Len(y) : y[i] = f[Len(x) + i]
      PROVE  x \o y = f
  <2>1. x \o y \in Seq(S) /\ Len(x \o y) = m  BY <1>8
  <2>2. ASSUME NEW i \in 1..m PROVE (x \o y)[i] = f[i]
    <3>1. CASE i \in 1..Len(x)  BY <1>8, <3>1
    <3>2. CASE i \notin 1..Len(x)
      <4>1. i - Len(x) \in 1..Len(y) /\ Len(x) + (i - Len(x)) = i  BY <1>8, <3>2
      <4>2. (x \o y)[i] = y[i - Len(x)]  BY <1>8, <3>2, <4>1
      <4> QED  BY <1>8, <4>1, <4>2
    <3> QED  BY <3>1, <3>2
  <2> DEFINE z == x \o y
  <2> HIDE DEF z
  <2>3. z \in [1..m -> S] /\ f \in [1..m -> ToSet(f)]
    BY <1>2, <2>1, LenProperties DEF z
  <2>4. \A i \in 1..m : z[i] = f[i]  BY <2>2 DEF z
  <2>5. z = f  BY <2>3, <2>4
  <2> QED  BY <2>5 DEF z
<1> DEFINE S == ToSet(r) \cup ToSet(f)
<1>9. r \in Seq(S) /\ b \in Seq(S)  BY <1>2, <1>7
<1>10. n + (m - n) = m  BY <1>5
<1> HIDE DEF S
<1>11. r \o b = f  BY <1>6, <1>7, <1>8, <1>9, <1>10
<1> QED  BY <1>3, <1>11 DEF b, r

\* The archives of the whole plan publish it.
LEMMA ItemsPublish ==
    ASSUME NEW pl \in Plans, ValidPlan(pl), Accepted(pl)
    PROVE  Publishes(pl, {Item(pl, s).data : s \in Slots(pl)})
<1> DEFINE archives == {Item(pl, s).data : s \in Slots(pl)}
<1> SUFFICES ASSUME NEW tg \in ToSet(pl.targets)
             PROVE  LET own == {a \in archives : a.target = tg.target}
                        held == UNION {{<<a.root \o e[1], e[2]>> : e \in a.entries} : a \in own}
                    IN  /\ held = {<<f, tg.files[f]>> : f \in DOMAIN tg.files}
                        /\ \A a, b \in own : a # b =>
                              {a.root \o e[1] : e \in a.entries} \cap
                                  {b.root \o e[1] : e \in b.entries} = {}
  BY DEF Publishes
<1>9. PICK t \in DOMAIN pl.targets : tg = pl.targets[t]  BY DEF ToSet
<1> DEFINE own == {a \in archives : a.target = tg.target}
           held == UNION {{<<a.root \o e[1], e[2]>> : e \in a.entries} : a \in own}
<1>1. CoveredOnce(tg)  BY DEF Accepted
<1>2. \A a \in own : \E u \in DOMAIN tg.units : a = Archive(tg, tg.units[u])
  <2> SUFFICES ASSUME NEW a \in own PROVE \E u \in DOMAIN tg.units : a = Archive(tg, tg.units[u])
    OBVIOUS
  <2>1. PICK s \in Slots(pl) : a = Item(pl, s).data  OBVIOUS
  <2>2. s[1] \in DOMAIN pl.targets /\ s[2] \in DOMAIN pl.targets[s[1]].units  BY PlanParts
  <2>3. a = Archive(pl.targets[s[1]], pl.targets[s[1]].units[s[2]])
    BY <2>1 DEF Item, UnitAt
  <2>4. pl.targets[s[1]].target = tg.target  BY <2>3 DEF Archive
  <2>5. s[1] = t  BY <1>9, <2>2, <2>4 DEF ValidPlan, DistinctTargets
  <2> QED  BY <1>9, <2>2, <2>3, <2>5
<1>3. \A u \in DOMAIN tg.units : Archive(tg, tg.units[u]) \in own
  <2> SUFFICES ASSUME NEW u \in DOMAIN tg.units PROVE Archive(tg, tg.units[u]) \in own
    OBVIOUS
  <2>1. <<t, u>> \in Slots(pl) /\ UnitAt(pl, <<t, u>>) = tg.units[u]  BY <1>9, PlanParts
  <2>2. Item(pl, <<t, u>>).data = Archive(tg, tg.units[u])  BY <1>9, <2>1 DEF Item
  <2>3. Archive(tg, tg.units[u]).target = tg.target  BY DEF Archive
  <2> QED  BY <2>1, <2>2, <2>3
<1> HIDE DEF own, archives
\* The files of an archive are those of its unit.
<1>4. ASSUME NEW u \in DOMAIN tg.units
      PROVE  LET a == Archive(tg, tg.units[u]) IN
             /\ {<<a.root \o e[1], e[2]>> : e \in a.entries} =
                    {<<f, tg.files[f]>> : f \in FilesOf(tg, tg.units[u])}
             /\ {a.root \o e[1] : e \in a.entries} = FilesOf(tg, tg.units[u])
  <2> DEFINE un == tg.units[u]  a == Archive(tg, un)
             N(f) == <<ArchiveName(f, un), tg.files[f]>>
  <2>1. a.root = un.root /\ a.entries = {N(f) : f \in FilesOf(tg, un)}  BY DEF Archive
  <2>2. ASSUME NEW f \in FilesOf(tg, un)
        PROVE  a.root \o N(f)[1] = f /\ N(f)[2] = tg.files[f]
    <3>1. f \in DOMAIN tg.files /\ UnitContains(un, f)  BY DEF FilesOf
    <3>2. un.root \o ArchiveName(f, un) = f  BY <1>9, <3>1, NameIsFile
    <3> QED  BY <2>1, <3>2
  <2> HIDE DEF N, a, un
  <2>3. /\ \A e \in a.entries : \E f \in FilesOf(tg, un) : a.root \o e[1] = f /\ e[2] = tg.files[f]
        /\ \A f \in FilesOf(tg, un) : \E e \in a.entries : a.root \o e[1] = f /\ e[2] = tg.files[f]
    <3>1. ASSUME NEW e \in a.entries
          PROVE  \E f \in FilesOf(tg, un) : a.root \o e[1] = f /\ e[2] = tg.files[f]
      <4>1. PICK f \in FilesOf(tg, un) : e = N(f)  BY <2>1
      <4> QED  BY <2>2, <4>1
    <3>2. ASSUME NEW f \in FilesOf(tg, un)
          PROVE  \E e \in a.entries : a.root \o e[1] = f /\ e[2] = tg.files[f]
      <4>1. N(f) \in a.entries  BY <2>1
      <4> QED  BY <2>2, <4>1
    <3> QED  BY <3>1, <3>2
  <2> DEFINE E == a.entries  F == FilesOf(tg, un)  R(e) == a.root \o e[1]  V(f) == tg.files[f]
  <2>4. \A e \in E : \E f \in F : R(e) = f /\ e[2] = V(f)  BY <2>3
  <2>5. \A f \in F : \E e \in E : R(e) = f /\ e[2] = V(f)  BY <2>3
  <2> HIDE DEF E, F, R, V
  <2>6. {<<R(e), e[2]>> : e \in E} = {<<f, V(f)>> : f \in F}  BY <2>4, <2>5
  <2>7. {R(e) : e \in E} = F  BY <2>4, <2>5
  <2> QED  BY <2>6, <2>7 DEF E, F, R, V, a, un
\* Each file belongs to one unit.
<1>5. ASSUME NEW f \in DOMAIN tg.files
      PROVE  \E u \in DOMAIN tg.units : {v \in DOMAIN tg.units : UnitContains(tg.units[v], f)} = {u}
  <2> DEFINE U == {v \in DOMAIN tg.units : UnitContains(tg.units[v], f)}
  <2>1. DOMAIN tg.units = 1..Len(tg.units) /\ Len(tg.units) \in Nat  BY <1>9, PlanParts
  <2>2. IsFiniteSet(1..Len(tg.units))  BY <2>1, FS_Interval
  <2>3. IsFiniteSet(U)  BY <2>1, <2>2, FS_Subset
  <2>4. Cardinality(U) = 1  BY <1>1 DEF CoveredOnce
  <2> HIDE DEF U
  <2>5. \E u : U = {u}  BY <2>3, <2>4, FS_Singleton
  <2> QED  BY <2>5 DEF U
<1>6. held = {<<f, tg.files[f]>> : f \in DOMAIN tg.files}
  <2>1. ASSUME NEW h \in held PROVE h \in {<<f, tg.files[f]>> : f \in DOMAIN tg.files}
    <3>1. PICK a \in own : h \in {<<a.root \o e[1], e[2]>> : e \in a.entries}  OBVIOUS
    <3>2. PICK u \in DOMAIN tg.units : a = Archive(tg, tg.units[u])  BY <1>2
    <3>3. h \in {<<f, tg.files[f]>> : f \in FilesOf(tg, tg.units[u])}  BY <1>4, <3>1, <3>2
    <3> QED  BY <3>3 DEF FilesOf
  <2>2. ASSUME NEW f \in DOMAIN tg.files PROVE <<f, tg.files[f]>> \in held
    <3>1. PICK u \in DOMAIN tg.units : UnitContains(tg.units[u], f)  BY <1>5
    <3>2. f \in FilesOf(tg, tg.units[u])  BY <3>1 DEF FilesOf
    <3> DEFINE a == Archive(tg, tg.units[u])
    <3>3. <<f, tg.files[f]>> \in {<<a.root \o e[1], e[2]>> : e \in a.entries}  BY <1>4, <3>2
    <3>4. a \in own  BY <1>3
    <3> QED  BY <3>3, <3>4
  <2> HIDE DEF held
  <2> QED  BY <2>1, <2>2
<1>7. ASSUME NEW a \in own, NEW b \in own, a # b
      PROVE  {a.root \o e[1] : e \in a.entries} \cap {b.root \o e[1] : e \in b.entries} = {}
  <2>1. PICK u \in DOMAIN tg.units : a = Archive(tg, tg.units[u])  BY <1>2
  <2>2. PICK v \in DOMAIN tg.units : b = Archive(tg, tg.units[v])  BY <1>2
  <2>3. u # v  BY <1>7, <2>1, <2>2
  <2>4. ASSUME NEW f \in FilesOf(tg, tg.units[u]), f \in FilesOf(tg, tg.units[v]) PROVE FALSE
    <3>1. /\ f \in DOMAIN tg.files
          /\ UnitContains(tg.units[u], f) /\ UnitContains(tg.units[v], f)
      BY <2>4 DEF FilesOf
    <3> QED  BY <1>5, <2>3, <3>1
  <2>5. {a.root \o e[1] : e \in a.entries} = FilesOf(tg, tg.units[u])  BY <1>4, <2>1
  <2>6. {b.root \o e[1] : e \in b.entries} = FilesOf(tg, tg.units[v])  BY <1>4, <2>2
  <2> QED  BY <2>4, <2>5, <2>6
<1> QED  BY <1>6, <1>7 DEF own

-----------------------------------------------------------------------------
(* What each step keeps of that *)

Stay(p) ==
    \A q \in Procs \ {p} :
        /\ pc'[q] = pc[q] /\ plan'[q] = plan[q] /\ root'[q] = root[q]
        /\ index'[q] = index[q] /\ temp'[q] = temp[q] /\ equal'[q] = equal[q]

\* A command that runs is not beside one that counts as alone.
LEMMA StepKnows ==
    ASSUME Kept, IInv', NEW p \in Procs, Running(p), Stay(p), alone' = alone,
           StoreTyped', ArchivesAreWhole', Ready(p)', Stands(p)'
    PROVE  Kept'
<1>1. Alone(p)'  BY DEF Kept, Alone, Running, Stay
<1>2. ASSUME NEW q \in Procs, q # p PROVE Ready(q)' /\ Alone(q)' /\ Stands(q)'
  <2>1. /\ pc'[q] = pc[q] /\ plan'[q] = plan[q] /\ root'[q] = root[q]
        /\ index'[q] = index[q] /\ temp'[q] = temp[q] /\ equal'[q] = equal[q]
    BY <1>2 DEF Stay
  <2>2. Writes(q)' = Writes(q)  BY <2>1 DEF Writes
  <2>3. Ready(q)'  BY <2>1, <2>2 DEF Kept, Ready, Running
  <2>4. ~alone'[q]  BY <1>2 DEF Kept, Alone
  <2> QED  BY <2>3, <2>4 DEF Alone, Stands
<1> QED  BY <1>1, <1>2 DEF Kept

\* A command goes on and publishes nothing.
LEMMA GoKnows ==
    ASSUME Kept, IInv', NEW p \in Procs, Running(p), NEW label \in Labels, Goto(p, label),
           UNCHANGED <<store, plan, index, equal, alone>>,
           \/ temp' = temp
           \/ \E x \in {"none", "partial", "whole"} : temp' = [temp EXCEPT ![p] = x],
           \A q \in Procs \ {p} : root'[q] = root[q],
           Ready(p)', Stands(p)'
    PROVE  Kept'
<1>1. temp' \in [Procs -> {"none", "partial", "whole"}] /\ \A q \in Procs \ {p} : temp'[q] = temp[q]
  BY DEF Kept, StoreTyped
<1>2. StoreTyped'  BY <1>1 DEF Kept, StoreTyped
<1>3. ArchivesAreWhole'  BY DEF Kept, ArchivesAreWhole
<1>4. \A q \in Procs \ {p} : pc'[q] = pc[q]  BY GotoOnly DEF Kept
<1>5. Stay(p)  BY <1>1, <1>4 DEF Stay
<1> QED  BY <1>2, <1>3, <1>5, StepKnows

LEMMA EndKnows ==
    ASSUME Kept, IInv', NEW p \in Procs, Running(p), Fail(p) \/ (Goto(p, "idle") /\ temp' = temp),
           UNCHANGED <<store, plan, index, equal, alone>>,
           \A q \in Procs \ {p} : root'[q] = root[q]
    PROVE  Kept'
<1>1. PICK label \in {"failed", "idle"} : Goto(p, label)  BY DEF Fail
<1>2. /\ label \in Labels
      /\ label \notin Pinning \cup Writing \cup {"ok", "prepare"} /\ label \in Ended
  BY DEF Labels, Ended, Pinning, Writing
<1>3. pc'[p] = label  BY <1>1, <1>2, GotoOnly DEF Kept
<1>4. Ready(p)'  BY <1>2, <1>3 DEF Ready, Running, Writing
<1>5. Stands(p)'  BY <1>2, <1>3 DEF Stands, Writing
<1> QED  BY <1>1, <1>2, <1>4, <1>5, GoKnows DEF Fail

\* From one point of pinning to the next, or to the check of the plan.
LEMMA PinKnows ==
    ASSUME Kept, IInv', NEW p \in Procs, pc[p] \in Pinning,
           NEW label \in (Pinning \ {"open"}) \cup {"prepare"}, Goto(p, label),
           label # "validate" => ValidPlan(plan[p]),
           UNCHANGED <<store, plan, index, equal, alone, temp>>,
           \A q \in Procs \ {p} : root'[q] = root[q]
    PROVE  Kept'
<1>1. Running(p)  BY DEF Running, Ended, Pinning
<1>2. /\ label \in Labels
      /\ label \in Pinning \cup {"prepare"}
      /\ label \notin Writing \cup {"ok"}
  BY DEF Labels, Pinning, Checking, Writing
<1>3. pc'[p] = label  BY <1>2, GotoOnly DEF Kept
<1>4. plan[p] \in Plans /\ index[p] = 1  BY <1>1 DEF Kept, Ready
<1>5. Ready(p)'
  <2>1. label \notin {"check", "commit"}  BY <1>2 DEF Writing
  <2> QED  BY <1>2, <1>3, <1>4, <2>1 DEF Ready
<1>6. Stands(p)'
  <2>1. label # "commit"  BY <1>2 DEF Writing
  <2> QED  BY <1>2, <1>3, <2>1 DEF Stands
<1> QED  BY <1>1, <1>2, <1>5, <1>6, GoKnows

LEMMA PinningKnows ==
    ASSUME Kept, IInv', NEW p \in Procs,
           Open(p) \/ Validate(p) \/ Lookup(p) \/ Mkdir(p) \/ Enter(p) \/ Recheck(p)
    PROVE  Kept'
<1>1. /\ pc[p] \in Pinning
      /\ pc[p] \notin {"open", "validate"} => ValidPlan(plan[p])
      /\ UNCHANGED <<store, plan, index, equal, alone>>
  <2>1. UNCHANGED <<store, plan, index, equal, alone>>
    BY DEF Open, Validate, Lookup, Mkdir, Enter, Recheck, disk
  <2>2. pc[p] \in Pinning  BY DEF Open, Validate, Lookup, Mkdir, Enter, Recheck, Pinning
  <2> QED  BY <2>1, <2>2 DEF Kept, Ready
<1>2. \A q \in Procs \ {p} : root'[q] = root[q]
  <2>1. ASSUME NEW x, root' = [root EXCEPT ![p] = x]
        PROVE  \A q \in Procs \ {p} : root'[q] = root[q]
    BY <2>1 DEF Kept, IInv, Typed
  <2>2. CASE Open(p)  BY <2>1, <2>2 DEF Open
  <2>3. CASE Recheck(p)  BY <2>1, <2>3 DEF Recheck
  <2>4. CASE Validate(p) \/ Lookup(p) \/ Mkdir(p) \/ Enter(p)
    BY <2>4 DEF Validate, Lookup, Mkdir, Enter
  <2> QED  BY <2>2, <2>3, <2>4
<1>3. Running(p)  BY <1>1 DEF Running, Ended, Pinning
<1>4. CASE Fail(p)  BY <1>1, <1>2, <1>3, <1>4, EndKnows
<1>5. ASSUME NEW label \in (Pinning \ {"open"}) \cup {"prepare"}, Goto(p, label), temp' = temp,
             label # "validate" => ValidPlan(plan[p])
      PROVE  Kept'
  BY <1>1, <1>2, <1>5, PinKnows
<1>6. CASE Open(p)
  <2>1. Fail(p) \/ (Goto(p, "validate") /\ temp' = temp)  BY <1>6 DEF Open
  <2> QED  BY <1>4, <1>5, <2>1 DEF Pinning
<1>7. CASE Validate(p)
  <2>1. Fail(p) \/ (Goto(p, "create") /\ temp' = temp /\ ValidPlan(plan[p]))
    BY <1>7 DEF Validate
  <2> QED  BY <1>4, <1>5, <2>1 DEF Pinning
<1>8. CASE Lookup(p)
  <2>1. ValidPlan(plan[p])  BY <1>1, <1>8 DEF Lookup
  <2>2. \/ Fail(p)
        \/ Goto(p, "mkdir") /\ temp' = temp
        \/ Goto(p, "enter") /\ temp' = temp
        \/ Goto(p, "prepare") /\ temp' = temp
    <3> DEFINE kind == entry[root[p]].kind
    <3>1. CASE missing[p]
      <4>1. CASE kind = "none"  BY <1>8, <3>1, <4>1 DEF Lookup
      <4>2. CASE kind = "dir"  BY <1>8, <3>1, <4>2 DEF Lookup
      <4>3. CASE kind \notin {"none", "dir"}  BY <1>8, <3>1, <4>3 DEF Lookup
      <4> QED  BY <4>1, <4>2, <4>3
    <3>2. CASE ~missing[p]  BY <1>8, <3>2 DEF Lookup
    <3> QED  BY <3>1, <3>2
  <2> QED  BY <1>4, <1>5, <2>1, <2>2 DEF Pinning
<1>9. CASE Mkdir(p)
  <2>1. ValidPlan(plan[p])  BY <1>1, <1>9 DEF Mkdir
  <2>2. Fail(p) \/ (Goto(p, "enter") /\ temp' = temp)  BY <1>9 DEF Mkdir
  <2> QED  BY <1>4, <1>5, <2>1, <2>2 DEF Pinning
<1>10. CASE Enter(p)
  <2>1. ValidPlan(plan[p])  BY <1>1, <1>10 DEF Enter
  <2>2. Fail(p) \/ (Goto(p, "recheck") /\ temp' = temp)  BY <1>10 DEF Enter
  <2> QED  BY <1>4, <1>5, <2>1, <2>2 DEF Pinning
<1>11. CASE Recheck(p)
  <2>1. ValidPlan(plan[p])  BY <1>1, <1>11 DEF Recheck
  <2>2. Fail(p) \/ (Goto(p, "prepare") /\ temp' = temp)  BY <1>11 DEF Recheck
  <2> QED  BY <1>4, <1>5, <2>1, <2>2
<1> QED  BY <1>6, <1>7, <1>8, <1>9, <1>10, <1>11

LEMMA PrepareKnows == ASSUME Kept, IInv', NEW p \in Procs, Prepare(p) PROVE Kept'
<1>1. /\ pc[p] = "prepare" /\ UNCHANGED <<store, plan, root, index, equal, alone>>
  BY DEF Prepare, disk
<1>2. Running(p)  BY <1>1 DEF Running, Ended
<1>3. CASE Fail(p)  BY <1>1, <1>2, <1>3, EndKnows
<1>4. ASSUME Accepted(plan[p]), temp' = temp,
             Goto(p, IF Writes(p) = <<>> THEN "ok" ELSE "begin")
      PROVE  Kept'
  <2> DEFINE label == IF Writes(p) = <<>> THEN "ok" ELSE "begin"
  <2>1. label \in Labels  BY DEF Labels, Ended, Checking
  <2>2. pc'[p] = label  BY <1>4, <2>1, GotoOnly DEF Kept
  <2>3. plan[p] \in Plans /\ index[p] = 1 /\ ValidPlan(plan[p])  BY <1>1, <1>2 DEF Kept, Ready
  <2>4. Writes(p)' = Writes(p) /\ Writes(p) \in Seq(Items)  BY <1>1, <2>3, WritesAreItems DEF Writes
  <2>5. IF Writes(p) = <<>> THEN Len(Writes(p)) = 0 ELSE Len(Writes(p)) \in Nat \ {0}
    BY <2>4, EmptySeq
  <2>6. Ready(p)'
    <3>1. label \in Writing => 1 \in 1..Len(Writes(p))  BY <2>5 DEF Writing
    <3>2. label \notin Pinning \cup {"prepare", "check", "commit"}  BY DEF Pinning
    <3> HIDE DEF label
    <3> QED  BY <1>1, <1>4, <2>2, <2>3, <2>4, <3>1, <3>2 DEF Ready
  <2>7. Stands(p)'
    <3>1. CASE label = "ok"
      <4>1. 1..Len(Writes(p)) = {}  BY <2>5, <3>1
      <4> QED  BY <2>2, <2>4, <3>1, <4>1 DEF Stands, Writing
    <3>2. CASE label = "begin"
      <4>1. index'[p] - 1 = 0  BY <1>1, <2>3
      <4>2. 1..(index'[p] - 1) = {}  BY <4>1
      <4> QED  BY <2>2, <3>2, <4>2 DEF Stands
    <3> QED  BY <3>1, <3>2
  <2> QED  BY <1>1, <1>2, <1>4, <2>1, <2>6, <2>7, GoKnows
<1> QED  BY <1>3, <1>4 DEF Prepare

LEMMA FillKnows == ASSUME Kept, IInv', NEW p \in Procs, Begin(p) \/ Fill(p) PROVE Kept'
<1>1. /\ pc[p] \in {"begin", "fill"} /\ UNCHANGED <<store, plan, root, index, equal, alone>>
  BY DEF Begin, Fill, disk
<1>2. Running(p)  BY <1>1 DEF Running, Ended
<1>3. CASE Fail(p)  BY <1>1, <1>2, <1>3, EndKnows
<1>4. ASSUME NEW label \in {"fill", "check"}, Goto(p, label),
             NEW x \in {"none", "partial", "whole"}, temp' = [temp EXCEPT ![p] = x],
             label = "check" => x = "whole"
      PROVE  Kept'
  <2>1. label \in Labels /\ label \in Writing /\ label \notin Pinning \cup {"prepare"}
    BY DEF Labels, Checking, Writing, Pinning
  <2>2. pc'[p] = label /\ temp'[p] = x  BY <1>4, <2>1, GotoOnly DEF Kept, StoreTyped
  <2>3. Writes(p)' = Writes(p)  BY <1>1 DEF Writes
  <2>4. pc[p] \in Writing  BY <1>1 DEF Writing
  <2>5. Ready(p)'  BY <1>1, <1>2, <1>4, <2>1, <2>2, <2>3, <2>4 DEF Kept, Ready
  <2>6. Stands(p)'  BY <1>1, <2>2, <2>3, <2>4 DEF Kept, Stands, InPlace
  <2> QED  BY <1>1, <1>2, <1>4, <2>1, <2>5, <2>6, GoKnows
<1>5. CASE Goto(p, "fill") /\ temp' = [temp EXCEPT ![p] = "partial"]  BY <1>4, <1>5
<1>6. CASE Goto(p, "check") /\ temp' = [temp EXCEPT ![p] = "whole"]  BY <1>4, <1>6
<1> QED  BY <1>3, <1>5, <1>6 DEF Begin, Fill

LEMMA CheckKnows == ASSUME Kept, IInv', NEW p \in Procs, Check(p) PROVE Kept'
<1>1. pc[p] = "check" /\ UNCHANGED <<store, plan, root, index, alone>>
  BY DEF Check, disk
<1>2. Running(p)  BY <1>1 DEF Running, Ended
<1>3. CASE Fail(p) /\ equal' = equal  BY <1>1, <1>2, <1>3, EndKnows
<1>4. ASSUME equal' = [equal EXCEPT ![p] = Current(p).data = Writes(p)[index[p]].data],
             Goto(p, "commit"), temp' = temp
      PROVE  Kept'
  <2>1. pc'[p] = "commit" /\ \A q \in Procs \ {p} : pc'[q] = pc[q]
    BY <1>4, GotoOnly DEF Kept, Labels
  <2>2. /\ equal' \in [Procs -> BOOLEAN] /\ \A q \in Procs \ {p} : equal'[q] = equal[q]
        /\ equal'[p] <=> InPlace(p, index[p])
    BY <1>4 DEF Kept, StoreTyped, InPlace, Current
  <2>3. Writes(p)' = Writes(p)  BY <1>1 DEF Writes
  <2>4. pc[p] \in Writing /\ "commit" \in Writing /\ "commit" \notin Pinning
    BY <1>1 DEF Writing, Pinning
  <2>5. Ready(p)'  BY <1>1, <1>2, <1>4, <2>1, <2>3, <2>4 DEF Kept, Ready
  <2>6. Stands(p)'  BY <1>1, <2>1, <2>2, <2>3, <2>4 DEF Kept, Stands, InPlace
  <2>7. StoreTyped' /\ ArchivesAreWhole'
    BY <1>1, <1>4, <2>2 DEF Kept, StoreTyped, ArchivesAreWhole
  <2>8. Stay(p)  BY <1>1, <1>4, <2>1, <2>2 DEF Stay
  <2> QED  BY <1>1, <1>2, <2>5, <2>6, <2>7, <2>8, StepKnows
<1> QED  BY <1>3, <1>4 DEF Check

\* What a commit writes, and where.
LEMMA CommitWrites ==
    ASSUME Kept, NEW p \in Procs, Commit(p)
    PROVE  LET d == root[p]
               w == Writes(p)[index[p]]
           IN  /\ d \in Dirs /\ w \in Items /\ \E s \in Slots(plan[p]) : w = Item(plan[p], s)
               /\ store' \in [Dirs -> [Names -> Stored]]
               /\ \A e \in Dirs : \A k \in Names :
                     store'[e][k] = IF e = d /\ k = w.key /\ ~equal[p]
                                    THEN [data |-> w.data, stamp |-> 1 - store[d][k].stamp]
                                    ELSE store[e][k]
<1> DEFINE d == root[p]
           w == Writes(p)[index[p]]
<1>1. pc[p] = "commit"  BY DEF Commit
<1>2. Running(p)  BY <1>1 DEF Running, Ended
<1>3. d \in Dirs  BY <1>1 DEF Kept, IInv, Pins
<1>4. plan[p] \in Plans /\ index[p] \in 1..Len(Writes(p)) /\ temp[p] = "whole"
  BY <1>1, <1>2 DEF Kept, Ready, Writing
<1>5. w \in Items /\ \E s \in Slots(plan[p]) : w = Item(plan[p], s)
  BY <1>4, WritesAreItems, ElementOfSeq
<1> HIDE DEF d, w
<1>6. w.key \in Names /\ w.data \in Archives  BY <1>5 DEF Items
<1>7. store \in [Dirs -> [Names -> Stored]]  BY DEF Kept, StoreTyped
<1>8. CASE equal[p]
  <2>1. store' = store  BY <1>8 DEF Commit
  <2> QED  BY <1>3, <1>5, <1>7, <1>8, <2>1 DEF d, w
<1>9. CASE ~equal[p]
  <2> DEFINE r == [data |-> w.data, stamp |-> 1 - store[d][w.key].stamp]
  <2>1. store' = [store EXCEPT ![d][w.key] = r]
    BY <1>4, <1>9 DEF Commit, Current, d, w
  <2>2. store[d][w.key] \in Stored  BY <1>3, <1>6, <1>7
  <2>3. store[d][w.key].stamp \in {0, 1}  BY <2>2 DEF Stored
  <2>4. r \in Stored  BY <1>6, <2>3 DEF Stored
  <2> HIDE DEF r
  <2>5. store' \in [Dirs -> [Names -> Stored]]  BY <1>3, <1>6, <1>7, <2>1, <2>4
  <2>6. \A e \in Dirs : \A k \in Names :
           store'[e][k] = IF e = d /\ k = w.key THEN r ELSE store[e][k]
    BY <1>3, <1>6, <1>7, <2>1
  <2> QED  BY <1>3, <1>5, <1>9, <2>5, <2>6 DEF r, d, w
<1> QED  BY <1>8, <1>9

LEMMA CommitKnows == ASSUME Kept, IInv', NEW p \in Procs, Commit(p) PROVE Kept'
<1> DEFINE d == root[p]
           i == index[p]
           w == Writes(p)[i]
<1>1. /\ pc[p] = "commit" /\ UNCHANGED <<plan, root, equal, alone>>
      /\ temp' = [temp EXCEPT ![p] = "none"]
      /\ \/ i = Len(Writes(p)) /\ Goto(p, "ok") /\ index' = index
         \/ i # Len(Writes(p)) /\ Goto(p, "begin") /\ index' = [index EXCEPT ![p] = i + 1]
  BY DEF Commit
<1>2. Running(p)  BY <1>1 DEF Running, Ended
<1>3. /\ plan[p] \in Plans /\ i \in 1..Len(Writes(p)) /\ ValidPlan(plan[p]) /\ Accepted(plan[p])
      /\ Len(Writes(p)) \in Nat /\ Writes(p) \in Seq(Items)
  <2>1. plan[p] \in Plans /\ i \in 1..Len(Writes(p)) /\ ValidPlan(plan[p]) /\ Accepted(plan[p])
    BY <1>1, <1>2 DEF Kept, Ready, Writing
  <2>2. Writes(p) \in Seq(Items)  BY <2>1, WritesAreItems
  <2> QED  BY <2>1, <2>2, LenProperties
<1>4. /\ d \in Dirs /\ w \in Items /\ \E s \in Slots(plan[p]) : w = Item(plan[p], s)
      /\ store' \in [Dirs -> [Names -> Stored]]
      /\ \A e \in Dirs : \A k \in Names :
            store'[e][k] = IF e = d /\ k = w.key /\ ~equal[p]
                           THEN [data |-> w.data, stamp |-> 1 - store[d][k].stamp]
                           ELSE store[e][k]
  BY CommitWrites
<1>5. /\ pc'[p] = IF i = Len(Writes(p)) THEN "ok" ELSE "begin"
      /\ \A q \in Procs \ {p} : pc'[q] = pc[q]
  BY <1>1, GotoOnly DEF Kept, Labels, Ended, Checking
<1>6. /\ index'[p] = IF i = Len(Writes(p)) THEN i ELSE i + 1
      /\ \A q \in Procs \ {p} : index'[q] = index[q]
  BY <1>1 DEF Kept, IInv, Typed
<1>7. temp' \in [Procs -> {"none", "partial", "whole"}] /\ \A q \in Procs \ {p} : temp'[q] = temp[q]
  BY <1>1 DEF Kept, StoreTyped
<1>8. StoreTyped'  BY <1>1, <1>4, <1>7 DEF Kept, StoreTyped
<1>9. Stay(p)  BY <1>1, <1>5, <1>6, <1>7 DEF Stay
<1>10. Writes(p)' = Writes(p)  BY <1>1 DEF Writes
<1>11. Ready(p)'
  <2>1. i # Len(Writes(p)) => i + 1 \in 1..Len(Writes(p))  BY <1>3
  <2>2. "ok" \notin Pinning \cup Writing /\ "begin" \notin Pinning /\ "begin" \in Writing
    BY DEF Pinning, Writing
  <2> QED  BY <1>1, <1>3, <1>5, <1>6, <1>10, <2>1, <2>2 DEF Ready
<1>12. ArchivesAreWhole'
  <2> SUFFICES ASSUME NEW e \in Dirs, NEW k \in Names
               PROVE  \/ store'[e][k].data \in {None, Junk}
                      \/ \E pl \in Plans : \E t \in ToSet(pl.targets) : \E u \in ToSet(t.units) :
                            Key(u) = k /\ store'[e][k].data = Archive(t, u)
    BY <1>4 DEF ArchivesAreWhole
  <2>1. CASE e = d /\ k = w.key /\ ~equal[p]
    <3>1. PICK s \in Slots(plan[p]) : w = Item(plan[p], s)  BY <1>4
    <3>2. s = <<s[1], s[2]>> /\ s[1] \in DOMAIN plan[p].targets
          /\ s[2] \in DOMAIN plan[p].targets[s[1]].units
      BY <1>3, PlanParts
    <3>3. /\ plan[p].targets[s[1]] \in ToSet(plan[p].targets)
          /\ UnitAt(plan[p], s) \in ToSet(plan[p].targets[s[1]].units)
      BY <1>3, <3>2, PlanParts DEF UnitAt
    <3>4. Key(UnitAt(plan[p], s)) = k
          /\ store'[e][k].data = Archive(plan[p].targets[s[1]], UnitAt(plan[p], s))
      <4> HIDE DEF w, d
      <4>1. store'[e][k] = [data |-> w.data, stamp |-> 1 - store[d][k].stamp]  BY <1>4, <2>1
      <4>2. store'[e][k].data = w.data  BY <4>1
      <4> QED  BY <2>1, <3>1, <4>2 DEF Item
    <3> QED  BY <1>3, <3>3, <3>4
  <2>2. CASE ~(e = d /\ k = w.key /\ ~equal[p])
    <3>1. store'[e][k] = store[e][k]  BY <1>4, <2>2
    <3>2. k \in DOMAIN store[e]  BY DEF Kept, StoreTyped
    <3> QED  BY <3>1, <3>2 DEF Kept, ArchivesAreWhole
  <2> QED  BY <2>1, <2>2
\* What was in place stays, for archives of one name are one archive.
<1>13. ASSUME alone[p], NEW j \in 1..i PROVE InPlace(p, j)'
  <2> DEFINE v == Writes(p)[j]
  <2>1. j \in 1..Len(Writes(p)) /\ (j = i \/ j \in 1..(i - 1))  BY <1>3
  <2>2. v \in Items  BY <1>3, <2>1, ElementOfSeq
  <2>3. v.key = w.key => v = w  BY <1>3, <2>1, NamesTell
  <2>4. v.key \in Names  BY <2>2 DEF Items
  <2>5. j # i => store[d][v.key].data = v.data
    BY <1>1, <1>13, <2>1 DEF Kept, Stands, InPlace, Writing
  <2>6. equal[p] => store[d][w.key].data = w.data
    BY <1>1, <1>13 DEF Kept, Stands, InPlace
  <2> HIDE DEF v, w, d
  <2>7. store'[d][v.key].data = v.data
    <3>1. CASE v.key = w.key /\ ~equal[p]
      <4>1. /\ d \in Dirs
            /\ store'[d][v.key] = [data |-> w.data, stamp |-> 1 - store[d][v.key].stamp]
        BY <1>4, <2>4, <3>1 DEF d, w
      <4>2. store'[d][v.key].data = w.data  BY <4>1
      <4> QED  BY <2>3, <3>1, <4>2
    <3>2. CASE ~(v.key = w.key /\ ~equal[p])
      <4>1. store'[d][v.key] = store[d][v.key]  BY <1>4, <2>4, <3>2
      <4>2. j = i => v = w  BY DEF v, w
      <4> QED  BY <2>5, <2>6, <3>2, <4>1, <4>2
    <3> QED  BY <3>1, <3>2
  <2> QED  BY <1>1, <1>10, <2>7 DEF InPlace, v, d
<1>14. Stands(p)'
  <2>1. CASE i = Len(Writes(p))
    BY <1>1, <1>5, <1>10, <1>13, <2>1 DEF Stands, Writing
  <2>2. CASE i # Len(Writes(p))
    <3>1. index'[p] - 1 = i  BY <1>3, <1>6, <2>2
    <3> QED  BY <1>1, <1>5, <1>13, <2>2, <3>1 DEF Stands
  <2> QED  BY <2>1, <2>2
<1> QED  BY <1>1, <1>2, <1>8, <1>9, <1>11, <1>12, <1>14, StepKnows

LEMMA StartKnows == ASSUME Kept, IInv', NEW p \in Procs, Start(p) PROVE Kept'
<1>1. /\ Goto(p, "open") /\ UNCHANGED <<store, equal>>
      /\ \E pl \in Plans : plan' = [plan EXCEPT ![p] = pl]
      /\ root' = [root EXCEPT ![p] = None]
      /\ index' = [index EXCEPT ![p] = 1]
      /\ temp' = [temp EXCEPT ![p] = "none"]
      /\ alone' = [q \in Procs |-> q = p /\ \A r \in Procs \ {p} : ~Running(r)]
  BY DEF Start, disk
<1>2. "open" \in Labels /\ "open" \notin Writing  BY DEF Labels, Pinning, Writing
<1>3. pc'[p] = "open" /\ \A q \in Procs \ {p} : pc'[q] = pc[q]
  BY <1>1, <1>2, GotoOnly DEF Kept
<1>4. plan'[p] \in Plans /\ \A q \in Procs \ {p} : plan'[q] = plan[q]
  BY <1>1 DEF Kept, IInv, Typed
<1>5. index'[p] = 1 /\ \A q \in Procs \ {p} : index'[q] = index[q] /\ root'[q] = root[q]
  BY <1>1 DEF Kept, IInv, Typed
<1>6. temp' \in [Procs -> {"none", "partial", "whole"}] /\ \A q \in Procs \ {p} : temp'[q] = temp[q]
  BY <1>1 DEF Kept, StoreTyped
<1>7. StoreTyped' /\ ArchivesAreWhole'
  BY <1>1, <1>6 DEF Kept, StoreTyped, ArchivesAreWhole
<1>8. Ready(p)'  BY <1>2, <1>3, <1>4, <1>5 DEF Ready, Writing
<1>9. Alone(p)'  BY <1>1, <1>3 DEF Alone, Running
<1>10. Stands(p)'  BY <1>2, <1>3 DEF Stands
<1>11. ASSUME NEW q \in Procs, q # p PROVE Ready(q)' /\ Alone(q)' /\ Stands(q)'
  <2>1. /\ pc'[q] = pc[q] /\ plan'[q] = plan[q] /\ root'[q] = root[q]
        /\ index'[q] = index[q] /\ temp'[q] = temp[q]
    BY <1>3, <1>4, <1>5, <1>6, <1>11
  <2>2. Writes(q)' = Writes(q)  BY <2>1 DEF Writes
  <2>3. Ready(q)'  BY <2>1, <2>2 DEF Kept, Ready, Running
  <2>4. ~alone'[q]  BY <1>1, <1>11
  <2> QED  BY <2>3, <2>4 DEF Alone, Stands
<1> QED  BY <1>7, <1>8, <1>9, <1>10, <1>11 DEF Kept

\* Neither a move nor a stutter touches an archive or a command.
LEMMA SameKnows ==
    ASSUME Kept, IInv', UNCHANGED <<store, pc, plan, root, index, temp, equal, alone>>
    PROVE  Kept'
<1>1. StoreTyped' /\ ArchivesAreWhole'  BY DEF Kept, StoreTyped, ArchivesAreWhole
<1>2. ASSUME NEW p \in Procs PROVE Ready(p)' /\ Alone(p)' /\ Stands(p)'
  <2>1. Writes(p)' = Writes(p)  BY DEF Writes
  <2>2. Ready(p)'  BY <2>1 DEF Kept, Ready, Running
  <2>3. Alone(p)'  BY DEF Kept, Alone, Running
  <2>4. Stands(p)'  BY <2>1 DEF Kept, Stands, InPlace
  <2> QED  BY <2>2, <2>3, <2>4
<1> QED  BY <1>1, <1>2 DEF Kept

\* An edit, while no command runs, leaves the stamps.
LEMMA EditWrites ==
    ASSUME Kept, Edit
    PROVE  /\ store' \in [Dirs -> [Names -> Stored]]
           /\ \A e \in Dirs : \A k \in Names :
                 /\ store'[e][k].stamp = store[e][k].stamp
                 /\ store'[e][k] = store[e][k] \/ store'[e][k].data \in {None, Junk}
<1>1. store \in [Dirs -> [Names -> Stored]]  BY DEF Kept, StoreTyped
<1>2. PICK d \in Dirs : \E k \in DOMAIN store[d], data \in {None, Junk} :
         store' = [store EXCEPT ![d][k].data = data]
  BY DEF Edit
<1>3. PICK k \in DOMAIN store[d], data \in {None, Junk} :
         store' = [store EXCEPT ![d][k].data = data]
  BY <1>2
<1> DEFINE r == [store[d][k] EXCEPT !.data = data]
<1>4. k \in Names /\ store[d][k] \in Stored  BY <1>1, <1>3
<1>5. r \in Stored /\ r.stamp = store[d][k].stamp /\ r.data = data  BY <1>4 DEF Stored
<1>6. store' = [store EXCEPT ![d][k] = r]  BY <1>1, <1>3
<1> HIDE DEF r
<1>7. store' \in [Dirs -> [Names -> Stored]]  BY <1>1, <1>4, <1>5, <1>6
<1>8. \A e \in Dirs : \A n \in Names :
         store'[e][n] = IF e = d /\ n = k THEN r ELSE store[e][n]
  BY <1>1, <1>4, <1>6
<1> QED  BY <1>5, <1>7, <1>8

LEMMA EditKnows == ASSUME Kept, IInv', Edit PROVE Kept'
<1>1. /\ pc' = [p \in Procs |-> "idle"] /\ UNCHANGED <<plan, root, index, temp, equal, alone>>
  BY DEF Edit, locals
<1>2. /\ store' \in [Dirs -> [Names -> Stored]]
      /\ \A e \in Dirs : \A k \in Names :
            store'[e][k] = store[e][k] \/ store'[e][k].data \in {None, Junk}
  BY EditWrites
<1>3. StoreTyped'  BY <1>1, <1>2 DEF Kept, StoreTyped
<1>4. ArchivesAreWhole'
  <2> SUFFICES ASSUME NEW e \in Dirs, NEW k \in Names
               PROVE  \/ store'[e][k].data \in {None, Junk}
                      \/ \E pl \in Plans : \E t \in ToSet(pl.targets) : \E u \in ToSet(t.units) :
                            Key(u) = k /\ store'[e][k].data = Archive(t, u)
    BY <1>2 DEF ArchivesAreWhole
  <2>1. k \in DOMAIN store[e]  BY DEF Kept, StoreTyped
  <2> QED  BY <1>2, <2>1 DEF Kept, ArchivesAreWhole
<1>5. \A p \in Procs : pc'[p] = "idle"  BY <1>1
<1>6. ASSUME NEW p \in Procs PROVE Ready(p)' /\ Alone(p)' /\ Stands(p)'
  <2>1. "idle" \notin Pinning \cup Writing  BY DEF Pinning, Writing
  <2>2. Ready(p)'  BY <1>5, <2>1 DEF Ready, Running, Ended
  <2>3. Alone(p)'  BY <1>5 DEF Alone, Running, Ended
  <2>4. Stands(p)'  BY <1>5, <2>1 DEF Stands
  <2> QED  BY <2>2, <2>3, <2>4
<1> QED  BY <1>3, <1>4, <1>6 DEF Kept

LEMMA NextKnows == ASSUME Kept, [Next]_vars PROVE Kept'
<1>1. IInv'  BY NextKeeps DEF Kept
<1>2. CASE Move  BY <1>1, <1>2, SameKnows DEF Move
<1>3. CASE Edit  BY <1>1, <1>3, EditKnows
<1>4. CASE UNCHANGED vars  BY <1>1, <1>4, SameKnows DEF vars, disk, locals
<1>5. ASSUME NEW p \in Procs, Start(p) \/ Step(p) PROVE Kept'
  BY <1>1, <1>5, StartKnows, PinningKnows, PrepareKnows, FillKnows, CheckKnows, CommitKnows
  DEF Step
<1>6. ASSUME NEW p \in Procs, Fault(p) PROVE Kept'
  BY <1>1, <1>6, EndKnows DEF Fault, disk
<1>7. ASSUME NEW p \in Procs, Kill(p) PROVE Kept'
  BY <1>1, <1>7, EndKnows DEF Kill, disk, locals
<1> QED  BY <1>2, <1>3, <1>4, <1>5, <1>6, <1>7 DEF Next

LEMMA InitKnows == Init => Kept
<1> SUFFICES ASSUME Init PROVE Kept
  OBVIOUS
<1>1. IInv  BY InitHolds
<1>2. /\ store = [d \in Dirs |-> [k \in Names |-> [data |-> None, stamp |-> 0]]]
      /\ \A p \in Procs : pc[p] = "idle"
      /\ temp = [p \in Procs |-> "none"] /\ equal = [p \in Procs |-> FALSE]
      /\ alone = [p \in Procs |-> FALSE]
  BY DEF Init, Names
<1>3. [data |-> None, stamp |-> 0] \in Stored  BY DEF Stored
<1>4. StoreTyped  BY <1>2, <1>3 DEF StoreTyped
<1>5. ArchivesAreWhole  BY <1>2 DEF ArchivesAreWhole
<1>6. ASSUME NEW p \in Procs PROVE Ready(p) /\ Alone(p) /\ Stands(p)
  <2>1. "idle" \notin Pinning \cup Writing  BY DEF Pinning, Writing
  <2> QED  BY <1>2, <2>1 DEF Ready, Alone, Stands, Running, Ended
<1> QED  BY <1>1, <1>4, <1>5, <1>6 DEF Kept

-----------------------------------------------------------------------------
(* The theorems about the archives *)

\* An archive's name never leads to a part of an archive, nor to one that no
\* command was asked for (writeTarGzipFromPlan).
THEOREM WholeArchives == Spec => []ArchivesAreWhole
  BY InitKnows, NextKnows, PTL DEF Spec, Kept

\* When a command that no other one interferes with returns the paths of its
\* archives, they hold exactly the files of the plan (writePreparedArchives).
THEOREM SuccessIsPublished == Spec => []SuccessPublishesPlan
<1>1. ASSUME Kept PROVE SuccessPublishesPlan
  <2> SUFFICES ASSUME NEW p \in Procs, pc[p] = "ok", alone[p]
               PROVE  Publishes(plan[p], {store[root[p]][w.key].data : w \in ToSet(Writes(p))})
    BY DEF SuccessPublishesPlan
  <2>1. /\ plan[p] \in Plans /\ ValidPlan(plan[p]) /\ Accepted(plan[p])
        /\ \A i \in 1..Len(Writes(p)) : InPlace(p, i)
    BY <1>1 DEF Kept, Ready, Stands
  <2>2. DOMAIN Writes(p) = 1..Len(Writes(p))  BY <2>1, WritesAreItems, LenProperties
  <2> DEFINE W == ToSet(Writes(p))
             archives == {store[root[p]][w.key].data : w \in W}
             items == {Item(plan[p], s).data : s \in Slots(plan[p])}
  <2>3. \A w \in W : /\ store[root[p]][w.key].data = w.data
                     /\ \E s \in Slots(plan[p]) : w = Item(plan[p], s)
    BY <2>1, <2>2, WritesAreItems DEF ToSet, InPlace
  <2>4. \A s \in Slots(plan[p]) : Item(plan[p], s) \in W
    BY <2>1, <2>2, WritesAreItems DEF ToSet
  <2> HIDE DEF W
  <2>5. archives = items  BY <2>3, <2>4
  <2> HIDE DEF archives, items
  <2>6. Publishes(plan[p], items)  BY <2>1, ItemsPublish DEF items
  <2> QED  BY <2>5, <2>6 DEF archives, W
<1> QED  BY <1>1, InitKnows, NextKnows, PTL DEF Spec

\* Unless another command runs, an archive whose bytes would not change is not
\* replaced (sameFileContents).
THEOREM UnchangedStays == Spec => UnchangedIsKept
<1>1. ASSUME Kept, [Next]_vars,
             \A p \in Procs : Running(p) => alone[p],
             NEW d \in Dirs, NEW k \in DOMAIN store[d],
             store'[d][k].stamp # store[d][k].stamp
      PROVE  store'[d][k].data # store[d][k].data
  <2>1. k \in Names  BY <1>1 DEF Kept, StoreTyped
  <2>2. store' # store  BY <1>1
  <2>3. ~Edit  BY <1>1, <2>1, EditWrites
  <2>4. ~Move /\ ~UNCHANGED vars  BY <2>2 DEF Move, vars, disk
  <2>5. PICK p \in Procs : Start(p) \/ Step(p) \/ Fault(p) \/ Kill(p)
    BY <1>1, <2>3, <2>4 DEF Next
  <2>6. Commit(p)
    BY <2>2, <2>5 DEF Step, Start, Fault, Kill, Open, Validate, Lookup, Mkdir, Enter, Recheck,
                      Prepare, Begin, Fill, Check, disk
  <2>7. pc[p] = "commit" /\ Running(p)  BY <2>6 DEF Commit, Running, Ended
  <2>8. equal[p] <=> InPlace(p, index[p])  BY <1>1, <2>7 DEF Kept, Stands
  <2> DEFINE w == Writes(p)[index[p]]
  <2>9. store'[d][k] = IF d = root[p] /\ k = w.key /\ ~equal[p]
                       THEN [data |-> w.data, stamp |-> 1 - store[root[p]][k].stamp]
                       ELSE store[d][k]
    BY <1>1, <2>1, <2>6, CommitWrites
  <2>10. d = root[p] /\ k = w.key /\ ~equal[p]  BY <1>1, <2>9
  <2>11. store'[d][k].data = w.data  BY <2>9, <2>10
  <2> QED  BY <2>8, <2>10, <2>11 DEF InPlace
<1>2. ASSUME Kept, [Next]_vars
      PROVE  [(\A p \in Procs : Running(p) => alone[p]) =>
                \A d \in Dirs : \A k \in DOMAIN store[d] :
                    store'[d][k].stamp # store[d][k].stamp =>
                        store'[d][k].data # store[d][k].data]_store
  BY <1>1, <1>2
<1> QED  BY <1>2, InitKnows, NextKnows, PTL DEF Spec, UnchangedIsKept
================================================================================
