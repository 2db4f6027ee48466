----------------------------- MODULE CoResident -----------------------------
(****************************************************************************)
(* phase1 test/run_experiment.py: identical agents are spawned on one host, *)
(* attested through /proc by phase1 test/attestor.py, and their reports and *)
(* flows are matched to them by process id and by label.                    *)
(*                                                                          *)
(* A process id belongs to a child from its fork until its parent waits for *)
(* it (poll() does); then any process may get it.                           *)
(****************************************************************************)
EXTENDS Naturals, FiniteSets, Sequences, Functions

CONSTANTS
    Labels,         \* in the order they are spawned; the second is the victim
    Pids, NoPid,
    Conditions      \* strict_argv of each condition, in order

Roster == Range(Labels)
Names == Roster \cup {"impostor"}
Absent == [who |-> "nobody", cond |-> 0, state |-> "absent"]

ASSUME ResidentAssumption ==
    /\ Labels \in Seq(Roster) /\ IsInjective(Labels)
    /\ Roster \cap {"impostor", "other", "nobody"} = {}
    /\ NoPid \notin Pids
    /\ Conditions \in Seq(BOOLEAN)

VARIABLES
    cond,       \* conditions begun
    place,      \* where run_condition() is
    proc,       \* the process table
    popen,      \* each label's child
    live,       \* the pids of those that ran at the snapshot
    reports,    \* REPORT_DIR: who wrote each name's file, in which condition
    cursor,     \* the label that is attested, a place in Labels
    reads,      \* the processes its selectors were read from so far
    selectors,  \* for each label: the processes they were read from, if any
    svids,      \* the report found for each live label
    flowOwners, \* [label, process] of the flows attributed to a label
    fake        \* the impostor's pid

residentVars == <<cond, place, proc, popen, live, reports, cursor, reads,
                  selectors, svids, flowOwners, fake>>

RInit ==
    /\ cond = 0 /\ place = "between"
    /\ proc = [p \in Pids |-> Absent]
    /\ popen = [l \in Roster |-> NoPid] /\ live = popen
    /\ reports = [n \in Names |-> Absent]
    /\ cursor = 1 /\ reads = {}
    /\ selectors = [l \in Roster |-> {}]
    /\ svids = [l \in Roster |-> Absent]
    /\ flowOwners = {} /\ fake = NoPid

Here(l) == [who |-> l, cond |-> cond]
Id(r) == [who |-> r.who, cond |-> r.cond]
Children == Range(popen) \ {NoPid}
LiveOnes == {l \in Roster : live[l] # NoPid}
Spawned == Cardinality({l \in Roster : popen[l] # NoPid})
(* wait() or poll() on these children: those that have ended are gone.      *)
Reaped(ps) == [p \in Pids |-> IF p \in ps /\ proc[p].state = "zombie"
                              THEN Absent ELSE proc[p]]

------------------------------------------------------------------------------
(* Mutated forms of the definitions that follow, one bug each.              *)

(* The children are polled again though all were alive.                     *)
AlwaysPollAgain == TRUE

(* The reports of the condition before are kept.                            *)
KeptReports == reports

------------------------------------------------------------------------------
(* run_condition().                                                         *)

(* Whether the children are polled a second time.                           *)
PollsAgain == Cardinality(LiveOnes) < Len(Labels)

(* REPORT_DIR when a condition begins.                                      *)
ClearedReports == [n \in Names |-> Absent]

BeginCondition ==
    /\ place = "between" /\ cond < Len(Conditions)
    /\ cond' = cond + 1 /\ reports' = ClearedReports
    /\ popen' = [l \in Roster |-> NoPid]
    /\ live' = popen' /\ cursor' = 1 /\ reads' = {}
    /\ selectors' = [l \in Roster |-> {}]
    /\ svids' = [l \in Roster |-> Absent]
    /\ flowOwners' = {} /\ place' = "spawn"
    /\ UNCHANGED <<proc, fake>>

Spawn(p) ==
    /\ place = "spawn" /\ Spawned < Len(Labels)
    /\ proc[p] = Absent
    /\ LET l == Labels[Spawned + 1]
       IN /\ proc' = [proc EXCEPT ![p] = [who |-> l, cond |-> cond, state |-> "run"]]
          /\ popen' = [popen EXCEPT ![l] = p]
    /\ UNCHANGED <<cond, place, live, reports, cursor, reads, selectors, svids,
                   flowOwners, fake>>

(* live: poll() of every child; one that has ended is waited for by it.     *)
Snapshot ==
    /\ place = "spawn" /\ Spawned = Len(Labels)
    /\ live' = [l \in Roster |-> IF proc[popen[l]].state = "run" THEN popen[l] ELSE NoPid]
    /\ proc' = Reaped(Children)
    /\ place' = "check"
    /\ UNCHANGED <<cond, popen, reports, cursor, reads, selectors, svids,
                   flowOwners, fake>>

(* If one was missing, all are polled again, to say which have died.        *)
PollAgain ==
    /\ place = "check"
    /\ proc' = IF PollsAgain THEN Reaped(Children) ELSE proc
    /\ place' = "attest"
    /\ UNCHANGED <<cond, popen, live, reports, cursor, reads, selectors, svids,
                   flowOwners, fake>>

(* attest(): /proc/<pid>/status (three reads, taken as one), then the exe   *)
(* link, its content and the cgroup file, each of what has the pid then.    *)
(* A zombie has no exe: without the path there are no selectors, without    *)
(* the content there is no sha256.                                          *)
Subject == proc[live[Labels[cursor]]]

FinishAttest(result) ==
    /\ selectors' = [selectors EXCEPT ![Labels[cursor]] = result]
    /\ cursor' = cursor + 1 /\ reads' = {} /\ place' = "attest"

AttestStatus ==
    /\ place = "attest" /\ cursor <= Len(Labels) /\ Labels[cursor] \in LiveOnes
    /\ IF Subject = Absent THEN FinishAttest({})
       ELSE /\ reads' = {Id(Subject)} /\ place' = "exe"
            /\ UNCHANGED <<cursor, selectors>>
    /\ UNCHANGED <<cond, proc, popen, live, reports, svids, flowOwners, fake>>

AttestPath ==
    /\ place = "exe"
    /\ IF Subject.state # "run" THEN FinishAttest({})
       ELSE /\ reads' = reads \cup {Id(Subject)} /\ place' = "hash"
            /\ UNCHANGED <<cursor, selectors>>
    /\ UNCHANGED <<cond, proc, popen, live, reports, svids, flowOwners, fake>>

AttestHash ==
    /\ place = "hash"
    /\ reads' = IF Subject.state = "run" THEN reads \cup {Id(Subject)} ELSE reads
    /\ place' = "cgroup"
    /\ UNCHANGED <<cond, proc, popen, live, reports, cursor, selectors, svids,
                   flowOwners, fake>>

(* The container's id, from a process that may be gone.                     *)
AttestContainer ==
    /\ place = "cgroup"
    /\ FinishAttest(IF Subject = Absent THEN reads ELSE reads \cup {Id(Subject)})
    /\ UNCHANGED <<cond, proc, popen, live, reports, svids, flowOwners, fake>>

Skip ==
    /\ place = "attest" /\ cursor <= Len(Labels) /\ Labels[cursor] \notin LiveOnes
    /\ cursor' = cursor + 1
    /\ UNCHANGED <<cond, place, proc, popen, live, reports, reads, selectors,
                   svids, flowOwners, fake>>

(* The reports of the live labels.                                          *)
CollectReports ==
    /\ place = "attest" /\ cursor > Len(Labels)
    /\ svids' = [l \in Roster |-> IF l \in LiveOnes THEN reports[l] ELSE Absent]
    /\ place' = "flows"
    /\ UNCHANGED <<cond, proc, popen, live, reports, cursor, reads, selectors,
                   flowOwners, fake>>

(* E3: the flows of the processes that have the live pids by now.           *)
CollectFlows ==
    /\ place = "flows"
    /\ flowOwners' = {[label |-> l, process |-> Id(proc[live[l]])] :
                          l \in {l \in LiveOnes : proc[live[l]].state = "run"}}
    /\ place' = IF Conditions[cond] \/ LiveOnes = {} THEN "wait" ELSE "impostor"
    /\ UNCHANGED <<cond, proc, popen, live, reports, cursor, reads, selectors,
                   svids, fake>>

(* E4: an agent that claims the victim's principal; with one live agent     *)
(* there is no victim, and the program ends.                                *)
Impersonate(p) ==
    /\ place = "impostor"
    /\ IF Cardinality(LiveOnes) < 2
       THEN place' = "raised" /\ UNCHANGED <<proc, fake>>
       ELSE /\ proc[p] = Absent
            /\ proc' = [proc EXCEPT ![p] = [who |-> "impostor", cond |-> cond,
                                            state |-> "run"]]
            /\ fake' = p /\ place' = "faked"
    /\ UNCHANGED <<cond, popen, live, reports, cursor, reads, selectors, svids,
                   flowOwners>>

(* wait(timeout=8): it has ended, or the program does.                      *)
WaitFake ==
    /\ place = "faked"
    /\ proc' = Reaped({fake})
    /\ place' = IF proc[fake].state = "zombie" THEN "wait" ELSE "raised"
    /\ UNCHANGED <<cond, popen, live, reports, cursor, reads, selectors, svids,
                   flowOwners, fake>>

(* Every child that still runs is waited for, and killed after a while.     *)
WaitAll ==
    /\ place = "wait"
    /\ proc' = [p \in Pids |-> IF p \in Children /\ proc[p].cond = cond
                                  /\ proc[p].who \in Roster
                               THEN Absent ELSE proc[p]]
    /\ place' = "between"
    /\ UNCHANGED <<cond, popen, live, reports, cursor, reads, selectors, svids,
                   flowOwners, fake>>

------------------------------------------------------------------------------
(* The processes of the host.                                               *)

(* An agent writes its report.                                              *)
WriteReport(p) ==
    /\ proc[p].state = "run" /\ proc[p].who \in Names
    /\ reports[proc[p].who] = Absent
    /\ reports' = [reports EXCEPT ![proc[p].who] = proc[p]]
    /\ UNCHANGED <<cond, place, proc, popen, live, cursor, reads, selectors, svids,
                   flowOwners, fake>>

(* A process ends; a child stays until it is waited for.                    *)
EndProcess(p) ==
    /\ proc[p].state = "run"
    /\ proc' = [proc EXCEPT ![p] = IF proc[p].who = "other" THEN Absent
                                   ELSE [@ EXCEPT !.state = "zombie"]]
    /\ UNCHANGED <<cond, place, popen, live, reports, cursor, reads, selectors,
                   svids, flowOwners, fake>>

(* Another process of the host starts.                                      *)
StartOther(p) ==
    /\ proc[p] = Absent /\ cond > 0
    /\ proc' = [proc EXCEPT ![p] = [who |-> "other", cond |-> 0, state |-> "run"]]
    /\ UNCHANGED <<cond, place, popen, live, reports, cursor, reads, selectors,
                   svids, flowOwners, fake>>

RNext ==
    \/ BeginCondition
    \/ \E p \in Pids : Spawn(p) \/ Impersonate(p)
    \/ Snapshot
    \/ PollAgain
    \/ AttestStatus
    \/ AttestPath
    \/ AttestHash
    \/ AttestContainer
    \/ Skip
    \/ CollectReports
    \/ CollectFlows
    \/ WaitFake
    \/ WaitAll
    \/ \E p \in Pids : WriteReport(p) \/ EndProcess(p) \/ StartOther(p)

RSpec == RInit /\ [][RNext]_residentVars

------------------------------------------------------------------------------
(* Properties.                                                              *)

Processes == [who : Names \cup {"nobody", "other"}, cond : 0..Len(Conditions),
              state : {"absent", "run", "zombie"}]
Ids == [who : Names \cup {"other"}, cond : 0..Len(Conditions)]

RTypeOK ==
    /\ cond \in 0..Len(Conditions)
    /\ place \in {"between", "spawn", "check", "attest", "exe", "hash", "cgroup",
                  "flows", "impostor", "faked", "wait", "raised"}
    /\ proc \in [Pids -> Processes]
    /\ popen \in [Roster -> Pids \cup {NoPid}]
    /\ live \in [Roster -> Pids \cup {NoPid}]
    /\ reports \in [Names -> Processes] /\ svids \in [Roster -> Processes]
    /\ cursor \in 1..Len(Labels) + 1
    /\ reads \in SUBSET Ids
    /\ selectors \in [Roster -> SUBSET Ids]
    /\ \A o \in flowOwners : o.label \in Roster /\ o.process \in Ids
    /\ fake \in Pids \cup {NoPid}

(* run_condition(), :135-:204, over attest().  When every agent was alive   *)
(* at the snapshot, selectors and flows are never another process's, in     *)
(* whole or in part: they are those of the child spawned for the label, or  *)
(* it has died, since no pid is given up before the children are waited     *)
(* for.  (When one was missing, poll() at :138 gives up pids that are       *)
(* attested after it.)                                                      *)
AttestedOwnChild ==
    LiveOnes = Roster =>
        /\ \A l \in Roster : selectors[l] \subseteq {Here(l)}
        /\ \A o \in flowOwners : o.process = Here(o.label)

(* run_condition(), :107 and :158-:164.  A report counted for a label was   *)
(* written in this condition, by an agent of that label.                    *)
ReportsAreOwn ==
    \A l \in Roster : svids[l] # Absent => Id(svids[l]) = Here(l)
==============================================================================
