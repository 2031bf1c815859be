--------------------------- MODULE ScratchCluster ---------------------------
(***************************************************************************)
(* The scratch-cluster lease of the evaluation harness                     *)
(* (src/src-inspect-ai/src/seon_inspect/seon_cluster.py).                  *)
(*                                                                         *)
(* One harness thread owns a private operator root (a directory), creates  *)
(* one named branch on it, runs the branch in a JVM of its own, evaluates  *)
(* forms over the advertised prepl, may stop and start it again, and in    *)
(* the end stops the JVM and deletes the root.  The thread works through   *)
(* the operator command bin/seon, which may fail, or be cut off by the     *)
(* lease's timeout, before or after it had its effect: the JVM it launches *)
(* is a process of its own, and outlives it.  The JVM may die by itself.   *)
(*                                                                         *)
(* The thread's position inside a method is `at`; `call` is the method it  *)
(* is in.  A method that ends leaves its outcome in `answer`.              *)
(***************************************************************************)
EXTENDS Naturals

CONSTANTS
    None,       \* no advertisement
    Faults,     \* what may go wrong around the lease
    MaxBoots    \* bound on the JVMs that are launched on the root

FaultKinds == {"input", "command", "late", "crash", "transport", "advert", "delete"}

ASSUME FaultsAssumption == Faults \subseteq FaultKinds
ASSUME BootsAssumption == MaxBoots \in Nat
VARIABLES
    root,      \* the private operator root: "absent", "present" or "erased"
    branch,    \* whether the named branch was created on the root
    jvm,       \* the JVM on the root: "none", "booting" or "alive"
    pid,       \* the process id of the last JVM launched; 0 before the first
    advert,    \* what prepl.edn under the root says, or None
    lease,     \* the lease's flags and the locals of start_scratch_cluster
    call,      \* the method the harness thread is in
    at,        \* where in that method it stands
    answer     \* how its last method ended

leaseVars == <<root, branch, jvm, pid, advert, lease, call, at, answer>>
world     == <<root, branch, jvm, pid, advert>>

Calls == {"none", "start", "eval", "restart", "release"}
Steps == {"idle", "links", "recovers", "init", "names", "starts", "readies",
          "cleans", "stops", "rechecks", "ends", "erases"}

(* What an advertisement can say; pid tells which JVM wrote it. *)
Adverts == [name : {"own", "other"}, pid : Nat, host : {"loopback", "public"}, port : Nat]

ASSUME NoneAssumption == None \notin Adverts

(* parse_advertisement and _advertisement: every field is read, the process *)
(* coordinates are in range, the prepl is a loopback one and the name is    *)
(* the lease's own.                                                         *)
Parses(ad) ==
    /\ ad # None
    /\ ad.pid > 0
    /\ ad.port \in 1..65535
    /\ ad.host = "loopback"

Advertised(ad) == Parses(ad) /\ ad.name = "own"

(* A prepl reply as the client sees it when the peer closes, and when it   *)
(* accepts one: a terminal :ret that is not exceptional, and exactly one   *)
(* sentinel with this call's token around a payload that decodes.          *)
Replies == [terminal : BOOLEAN, exceptional : BOOLEAN, sentinels : 0..2, decodes : BOOLEAN]

Carries(reply) ==
    /\ reply.terminal
    /\ ~reply.exceptional
    /\ reply.sentinels = 1
    /\ reply.decodes

(* The peer answers at all only when the advertised JVM serves its port. *)
Reachable == Advertised(advert) /\ jvm = "alive" /\ advert.pid = pid

PreplOutcomes ==
    (IF Reachable THEN {"ok"} ELSE {})
        \cup (IF "transport" \in Faults \/ ~Reachable
              THEN {IF Carries(r) THEN "ok" ELSE "failed" :
                      r \in IF Reachable THEN Replies ELSE {x \in Replies : ~x.terminal}}
              ELSE {})

Fresh == [stopped |-> TRUE, released |-> FALSE, attempted |-> FALSE, started |-> FALSE]

LeaseInit ==
    /\ root = "absent"
    /\ branch = FALSE
    /\ jvm = "none"
    /\ pid = 0
    /\ advert = None
    /\ lease = Fresh
    /\ call = "none"
    /\ at = "idle"
    /\ answer = "none"

Goto(step) == at' = step /\ UNCHANGED <<call, answer>>

Ends(outcome) == at' = "idle" /\ call' = "none" /\ answer' = outcome

(* An exception leaves the method, through the except clause of            *)
(* start_scratch_cluster when that is the method.                          *)
Raises ==
    IF call = "start" THEN Goto("cleans") ELSE Ends("failed")

-----------------------------------------------------------------------------
(* The operator command, as its callers can see it.                        *)

(* A `start` that completes has seen its JVM ready and advertised.  One    *)
(* that fails, or that the timeout cuts off, may have launched its JVM:    *)
(* the child is not the operator's to kill.                                *)
Launched(state, ad) ==
    /\ pid < MaxBoots
    /\ pid' = pid + 1
    /\ jvm' = state
    /\ advert' = ad

OwnAdvert(p) == [name |-> "own", pid |-> p, host |-> "loopback", port |-> 5555]

WrittenAdverts(p) ==
    {OwnAdvert(p)} \cup (IF "advert" \in Faults
                         THEN {[OwnAdvert(p) EXCEPT !.name = "other"],
                               [OwnAdvert(p) EXCEPT !.host = "public"],
                               [OwnAdvert(p) EXCEPT !.port = 0]}
                         ELSE {})

StartCompletes ==
    \E ad \in WrittenAdverts(pid + 1) : Launched("alive", ad)

StartFails ==
    \/ "command" \in Faults /\ UNCHANGED <<jvm, pid, advert>>
    \/ "late" \in Faults /\ Launched("booting", advert)

(* A `stop` that completes has seen the process exit; one that fails may   *)
(* have stopped it or not.                                                 *)
StopCompletes == jvm' = "none" /\ advert' = None /\ UNCHANGED pid

StopFails ==
    /\ "command" \in Faults
    /\ UNCHANGED pid
    /\ \/ UNCHANGED <<jvm, advert>>
       \/ jvm' = "none" /\ advert' = None

(* The JVM a failed `start` left behind comes up, or not.  A JVM may die;  *)
(* its advertisement stays.                                                *)
ChildComesUp ==
    /\ jvm = "booting"
    /\ \/ jvm' = "alive" /\ advert' = IF root = "present" THEN OwnAdvert(pid) ELSE advert
       \/ jvm' = "none" /\ UNCHANGED advert
    /\ UNCHANGED <<root, branch, pid, lease, call, at, answer>>

JvmDies ==
    /\ "crash" \in Faults
    /\ jvm = "alive"
    /\ jvm' = "none"
    /\ UNCHANGED <<root, branch, pid, advert, lease, call, at, answer>>

-----------------------------------------------------------------------------
(* start_scratch_cluster                                                   *)

CallStart ==
    /\ call = "none" /\ root = "absent"
    /\ root' = "present"
    /\ call' = "start" /\ at' = "links" /\ answer' = "none"
    /\ UNCHANGED <<branch, jvm, pid, advert, lease>>

(* _make_runnable_root runs before the try: an input missing from the      *)
(* checkout raises and leaves the directory behind.                        *)
LinksRoot ==
    /\ at = "links"
    /\ \/ Goto("recovers")
       \/ "input" \in Faults /\ Ends("failed")
    /\ UNCHANGED <<world, lease>>

(* _recover_stale_advertisement: nothing to do without a file; otherwise   *)
(* `status` removes a stale one, and a live one is an error.               *)
Recovers(next) ==
    \/ /\ advert = None
       /\ Goto(next)
       /\ UNCHANGED <<world, lease>>
    \/ /\ advert # None /\ jvm = "none"
       /\ advert' = None
       /\ Goto(next)
       /\ UNCHANGED <<root, branch, jvm, pid, lease>>
    \/ /\ advert # None /\ (jvm # "none" \/ "command" \in Faults)
       /\ Raises
       /\ UNCHANGED <<world, lease>>

StartRecovers == at = "recovers" /\ Recovers("init")

(* `init`, then `init <name>`, which creates the branch. *)
Inits ==
    /\ at = "init"
    /\ \/ Goto("names")
       \/ "command" \in Faults /\ Raises
    /\ UNCHANGED <<world, lease>>

InitsName ==
    /\ at = "names"
    /\ \/ /\ branch' = TRUE
          /\ Goto("starts")
          /\ lease' = [lease EXCEPT !.attempted = TRUE]
       \/ /\ "command" \in Faults
          /\ branch' \in {branch, TRUE}
          /\ Raises
          /\ UNCHANGED lease
    /\ UNCHANGED <<root, jvm, pid, advert>>

(* Mutant of Starts: only the first start is noted on the lease. *)
StartsUnnoticed ==
    /\ at = "starts"
    /\ \/ /\ StartCompletes
          /\ lease' = [lease EXCEPT !.stopped = lease.started, !.started = TRUE]
          /\ Goto("readies")
       \/ /\ StartFails
          /\ Raises
          /\ UNCHANGED lease
    /\ UNCHANGED <<root, branch>>

(* The lease's flags are set after the command returned. *)
Starts ==
    /\ at = "starts"
    /\ \/ /\ StartCompletes
          /\ lease' = [lease EXCEPT !.stopped = FALSE, !.started = TRUE]
          /\ Goto("readies")
       \/ /\ StartFails
          /\ Raises
          /\ UNCHANGED lease
    /\ UNCHANGED <<root, branch>>

(* _wait_ready: the advertisement, then one form over the prepl. *)
Readies ==
    /\ at = "readies"
    /\ \E outcome \in PreplOutcomes :
          IF outcome = "ok" THEN Ends("ok") ELSE Raises
    /\ UNCHANGED <<world, lease>>

(* Mutant of CleansUp: a failed start always deletes the root. *)
CleansUpAlways ==
    /\ at = "cleans"
    /\ \/ /\ ~lease.started
          /\ root' = "erased" /\ advert' = None
          /\ Ends("failed")
       \/ lease.started /\ Goto("ends") /\ UNCHANGED <<root, advert>>
    /\ UNCHANGED <<branch, jvm, pid, lease>>

(* The except clause: before `start` was tried the root holds nothing and  *)
(* is deleted; after it completed the lease is released; in between the    *)
(* coordinates of a process that may be alive are kept.                    *)
CleansUp ==
    /\ at = "cleans"
    /\ \/ /\ ~lease.attempted
          /\ root' = "erased" /\ advert' = None
          /\ Ends("failed")
       \/ /\ lease.attempted /\ lease.started
          /\ Goto("ends") /\ UNCHANGED <<root, advert>>
       \/ /\ lease.attempted /\ ~lease.started
          /\ Ends("failed") /\ UNCHANGED <<root, advert>>
    /\ UNCHANGED <<branch, jvm, pid, lease>>

-----------------------------------------------------------------------------
(* restart                                                                 *)

CallRestart ==
    /\ call = "none"
    /\ IF lease.released THEN Ends("failed")
       ELSE call' = "restart" /\ at' = "stops" /\ answer' = "none"
    /\ UNCHANGED <<world, lease>>

StopsForRestart ==
    /\ at = "stops"
    /\ \/ /\ StopCompletes
          /\ lease' = [lease EXCEPT !.stopped = TRUE]
          /\ Goto("rechecks")
       \/ /\ StopFails
          /\ Raises
          /\ UNCHANGED lease
    /\ UNCHANGED <<root, branch>>

RestartRecovers == at = "rechecks" /\ Recovers("starts")

-----------------------------------------------------------------------------
(* eval_form, for a caller that may have an effect on the database.        *)

(* The form runs in the JVM, and its value comes back; or it ran and the   *)
(* reply was lost; or it never ran.                                        *)
CanRun == ~lease.released /\ Reachable
MayLose == "transport" \in Faults \/ ~Reachable \/ lease.released

-----------------------------------------------------------------------------
(* release                                                                 *)

CallRelease ==
    /\ call = "none" /\ root # "absent"
    /\ IF lease.released THEN Ends("ok")
       ELSE call' = "release" /\ at' = "ends" /\ answer' = "none"
    /\ UNCHANGED <<world, lease>>

StopsAtEnd ==
    /\ at = "ends"
    /\ \/ /\ lease.stopped
          /\ Goto("erases")
          /\ UNCHANGED <<jvm, pid, advert, lease>>
       \/ /\ ~lease.stopped
          /\ StopCompletes
          /\ lease' = [lease EXCEPT !.stopped = TRUE]
          /\ Goto("erases")
       \/ /\ ~lease.stopped
          /\ StopFails
          /\ Ends("failed")
          /\ UNCHANGED lease
    /\ UNCHANGED <<root, branch>>

(* The tree is deleted link by link; a deletion that fails leaves the      *)
(* lease unreleased, so that release can be called again.  A release in    *)
(* the except clause does not change what start_scratch_cluster raises.    *)
Erases ==
    /\ at = "erases"
    /\ \/ /\ root' = "erased" /\ advert' = None
          /\ lease' = [lease EXCEPT !.released = TRUE]
          /\ Ends(IF call = "start" THEN "failed" ELSE "ok")
       \/ /\ "delete" \in Faults
          /\ UNCHANGED <<root, advert, lease>>
          /\ Ends("failed")
    /\ UNCHANGED <<branch, jvm, pid>>

-----------------------------------------------------------------------------
StartSteps == LinksRoot \/ StartRecovers \/ Inits \/ InitsName \/ Starts \/ Readies \/ CleansUp
RestartSteps == StopsForRestart \/ RestartRecovers
ReleaseSteps == StopsAtEnd \/ Erases

LeaseSteps == StartSteps \/ RestartSteps \/ ReleaseSteps
JvmSteps   == ChildComesUp \/ JvmDies

=============================================================================
