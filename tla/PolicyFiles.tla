----------------------------- MODULE PolicyFiles -----------------------------
(***************************************************************************)
(* Loading text and variables from other hosts: SwfdecLoadObject           *)
(* (swfdec_load_object.c), the access matrix (swfdec_access.c) and the     *)
(* policy files that decide about other hosts (swfdec_policy_file.c).      *)
(*                                                                         *)
(* A script creates a load; the end of the frame executes all requests for *)
(* resources in their order.  A load from a host that no policy file       *)
(* allows makes its own policy file load and waits.  The waiting loads sit *)
(* at the policy file that was the newest when they asked, and move on to  *)
(* the next older one when it ends; the oldest file answers them all.      *)
(*                                                                         *)
(* A URL is reduced to its host.  What a policy file says is reduced to    *)
(* whether it allows the page of the player to load from the file's host.  *)
(***************************************************************************)
EXTENDS Naturals, Sequences

CONSTANTS
    MaxLoads,       \* bound: how many load objects scripts create
    Hosts,          \* the hosts they load from
    Permission,     \* what swfdec_load_object_matrix says about a host
    MaxPolicies     \* bound: how often scripts call loadPolicyFile

ASSUME PermissionAssumption == Permission \in [Hosts -> {"yes", "no", "policy"}]
ASSUME BoundsAssumption == MaxLoads \in Nat /\ MaxPolicies \in Nat

\* The load objects, numbered as they are created.
Loads == 1..MaxLoads

VARIABLES
    load,           \* what has become of each SwfdecLoadObject
    url,            \* the host that it loads from
    resource_requests, \* what the end of the frame has to execute
    run,            \* what is left of the list that is being executed
    policies,       \* how often scripts called loadPolicyFile
    host,           \* the host of each SwfdecPolicyFile
    allows,         \* the files that allow access to their host
    requests,       \* the loads that wait at each file
    loading_policy_files, \* the files that are loading, newest first
    answering,      \* the requests that are left in the loop of a file
    asked,          \* history: how many loads had to wait
    ticket          \* history: the order in which they did

files == <<host, allows, requests, loading_policy_files, answering>>
history == <<asked, ticket>>
vars == <<load, url, resource_requests, run, policies, files, history>>

Policy(h) == [kind |-> "policy", host |-> h]
Load(l) == [kind |-> "load", load |-> l]
Request == [kind : {"policy"}, host : Hosts] \union [kind : {"load"}, load : Loads]

Init == /\ load = [l \in Loads |-> "none"]
        /\ url \in [Loads -> Hosts]
        /\ resource_requests = <<>>
        /\ run = <<>>
        /\ policies = 0
        /\ host = <<>>
        /\ allows = {}
        /\ requests = <<>>
        /\ loading_policy_files = <<>>
        /\ answering = <<>>
        /\ asked = 0
        /\ ticket = [l \in Loads |-> 0]

\* swfdec_load_object_create: the rest happens at the end of the frame.
Create(l) ==
    /\ load[l] = "none"
    /\ \A k \in 1..l - 1 : load[k] # "none"
    /\ load' = [load EXCEPT ![l] = "requested"]
    /\ resource_requests' = Append(resource_requests, Load(l))
    /\ UNCHANGED <<url, run, policies, files, history>>

\* System.security.loadPolicyFile
LoadPolicyFile(h) ==
    /\ policies < MaxPolicies
    /\ policies' = policies + 1
    /\ resource_requests' = Append(resource_requests, Policy(h))
    /\ UNCHANGED <<load, url, run, files, history>>

\* No callback is running, so streams may report and frames may start.
Idle == run = <<>> /\ answering = <<>>

\* swfdec_function_list_execute_and_clear: what the functions add is for the
\* next time.
EndFrame ==
    /\ Idle
    /\ resource_requests # <<>>
    /\ run' = resource_requests
    /\ resource_requests' = <<>>
    /\ UNCHANGED <<load, url, policies, files, history>>

\* swfdec_player_allow_now
Allowed(h) == \E f \in allows : host[f] = h

\* swfdec_load_object_load: either the loader is created or finish is called.
Answered(l, allow) ==
    load' = [load EXCEPT ![l] = IF allow THEN "loading" ELSE "denied"]

WrongNewFile(h, waiting) ==
    /\ host' = Append(host, h)
    /\ requests' = Append(requests, waiting)
    /\ loading_policy_files' = Append(loading_policy_files, Len(host) + 1)
    /\ UNCHANGED <<allows, answering>>

\* swfdec_policy_file_new; a load that waits joins the newest file at once.
NewFile(h, waiting) ==
    /\ host' = Append(host, h)
    /\ requests' = Append(requests, waiting)
    /\ loading_policy_files' = <<Len(host) + 1>> \o loading_policy_files
    /\ UNCHANGED <<allows, answering>>

RunPolicy(h) == NewFile(h, <<>>) /\ UNCHANGED <<load, history>>

\* swfdec_player_allow_by_matrix and swfdec_player_allow_or_load
RunLoad(l) ==
    LET h == url[l]
        now == Permission[h] = "yes" \/ (Permission[h] = "policy" /\ Allowed(h))
    IN \/ /\ now \/ Permission[h] = "no"
          /\ Answered(l, now)
          /\ UNCHANGED <<files, history>>
       \/ /\ ~now
          /\ Permission[h] = "policy"
          /\ load' = [load EXCEPT ![l] = "waiting"]
          /\ NewFile(h, <<l>>)
          /\ asked' = asked + 1
          /\ ticket' = [ticket EXCEPT ![l] = asked + 1]

\* The next function of the list.
RunRequest ==
    /\ run # <<>>
    /\ run' = Tail(run)
    /\ \/ Head(run).kind = "policy" /\ RunPolicy(Head(run).host)
       \/ Head(run).kind = "load" /\ RunLoad(Head(run).load)
    /\ UNCHANGED <<url, resource_requests, policies>>

\* Either the next older file takes over the requests or they are answered.
MoveOn(f, i) ==
    IF i < Len(loading_policy_files)
    THEN LET next == loading_policy_files[i + 1]
         IN /\ requests' = [requests EXCEPT ![next] = @ \o requests[f],
                                            ![f] = <<>>]
            /\ UNCHANGED answering
    ELSE /\ answering' = requests[f]
         /\ requests' = [requests EXCEPT ![f] = <<>>]

Without(s, i) == SubSeq(s, 1, i - 1) \o SubSeq(s, i + 1, Len(s))

\* swfdec_policy_file_finished_loading: the stream of the file at position i
\* has closed with a text that allows access, or with another one, or failed.
FinishedLoading(i, allow) ==
    /\ Idle
    /\ i \in 1..Len(loading_policy_files)
    /\ LET f == loading_policy_files[i]
       IN /\ allows' = IF allow THEN allows \union {f} ELSE allows
          /\ loading_policy_files' = Without(loading_policy_files, i)
          /\ MoveOn(f, i)
    /\ UNCHANGED <<load, url, resource_requests, run, policies, host, history>>

WrongAnswerRequest ==
    /\ answering # <<>>
    /\ Answered(Head(answering), Allowed(url[Head(answering)]))
    /\ answering' = <<>>
    /\ UNCHANGED <<url, resource_requests, run, policies, host, allows,
                   requests, loading_policy_files, history>>

\* One round of the loop that answers requests.
AnswerRequest ==
    /\ answering # <<>>
    /\ Answered(Head(answering), Allowed(url[Head(answering)]))
    /\ answering' = Tail(answering)
    /\ UNCHANGED <<url, resource_requests, run, policies, host, allows,
                   requests, loading_policy_files, history>>

\* The stream of a load object closes or fails, and finish is called.
LoadEnds(l) ==
    /\ Idle
    /\ load[l] = "loading"
    /\ load' = [load EXCEPT ![l] = "ended"]
    /\ UNCHANGED <<url, resource_requests, run, policies, files, history>>

Next == \/ \E l \in Loads : Create(l) \/ LoadEnds(l)
        \/ \E h \in Hosts : LoadPolicyFile(h)
        \/ EndFrame
        \/ RunRequest
        \/ \E i \in 1..Len(loading_policy_files), allow \in BOOLEAN :
              FinishedLoading(i, allow)
        \/ AnswerRequest

Spec == Init /\ [][Next]_vars

-----------------------------------------------------------------------------
(* Properties                                                              *)

Files == 1..Len(host)

TypeOK ==
    /\ load \in [Loads ->
                  {"none", "requested", "waiting", "denied", "loading", "ended"}]
    /\ url \in [Loads -> Hosts]
    /\ resource_requests \in Seq(Request)
    /\ run \in Seq(Request)
    /\ policies \in Nat
    /\ host \in Seq(Hosts)
    /\ allows \in SUBSET Files
    /\ requests \in Seq(Seq(Loads))
    /\ Len(requests) = Len(host)
    /\ loading_policy_files \in Seq(Files)
    /\ answering \in Seq(Loads)
    /\ asked \in Nat
    /\ ticket \in [Loads -> Nat]

Loading == {loading_policy_files[i] : i \in 1..Len(loading_policy_files)}

\* A file loads only once, and a file that does not load keeps nobody waiting.
FilesLoadOnce ==
    /\ \A i, j \in 1..Len(loading_policy_files) :
          i # j => loading_policy_files[i] # loading_policy_files[j]
    /\ \A f \in allows : f \notin Loading
    /\ \A f \in Files : f \notin Loading => requests[f] = <<>>

\* Load l is entry number i of the requests for resources.
Executes(l, i) == i \in 1..Len(run) /\ run[i] = Load(l)
Queues(l, i) ==
    i \in 1..Len(resource_requests) /\ resource_requests[i] = Load(l)

\* A load that a script has created is in one of the lists of requests, once.
RequestedOnce ==
    \A l \in Loads :
       /\ load[l] = "requested"
             <=> \/ \E i \in 1..Len(run) : Executes(l, i)
                 \/ \E i \in 1..Len(resource_requests) : Queues(l, i)
       /\ \A i, j \in 1..Len(run) : Executes(l, i) /\ Executes(l, j) => i = j
       /\ \A i, j \in 1..Len(resource_requests) :
             Queues(l, i) /\ Queues(l, j) => i = j
       /\ \A i \in 1..Len(run), j \in 1..Len(resource_requests) :
             ~(Executes(l, i) /\ Queues(l, j))

\* Load l is number k of those that wait at file f, or are being answered.
WaitsAt(l, f, k) == k \in 1..Len(requests[f]) /\ requests[f][k] = l
IsAnswered(l, k) == k \in 1..Len(answering) /\ answering[k] = l

\* Exactly the loads that wait for policy files are kept somewhere.
WaitingIsKept ==
    \A l \in Loads :
       load[l] = "waiting"
          <=> \/ \E f \in Files : \E k \in 1..Len(requests[f]) : WaitsAt(l, f, k)
              \/ \E k \in 1..Len(answering) : IsAnswered(l, k)

\* Those at one file, those at older files and those that are being answered
\* are in the order in which they asked.
WaitingInOrder ==
    /\ \A f \in Files : \A k, m \in 1..Len(requests[f]) :
          k < m => ticket[requests[f][k]] < ticket[requests[f][m]]
    /\ \A i, j \in 1..Len(loading_policy_files) : i < j =>
          \A k \in 1..Len(requests[loading_policy_files[i]]),
             m \in 1..Len(requests[loading_policy_files[j]]) :
                ticket[requests[loading_policy_files[j]][m]]
                    < ticket[requests[loading_policy_files[i]][k]]
    /\ \A k, m \in 1..Len(answering) :
          k < m => ticket[answering[k]] < ticket[answering[m]]
    /\ \A f \in Files : \A k \in 1..Len(requests[f]), m \in 1..Len(answering) :
          ticket[answering[m]] < ticket[requests[f][k]]
    /\ \A l \in Loads : ticket[l] <= asked

\* The loop that executes requests and the loop that answers them are never
\* active at the same time.
OneLoop == run = <<>> \/ answering = <<>>

\* Every load that waits for policy files is kept in exactly one place, in the
\* order in which the loads asked, although files end in any order and hand
\* their requests to one another (swfdec_policy_file_finished_loading).
IInv == /\ TypeOK
        /\ FilesLoadOnce
        /\ RequestedOnce
        /\ WaitingIsKept
        /\ WaitingInOrder
        /\ OneLoop

\* The files that a load still waits for: the one that keeps it and all older
\* ones.
Needs(l) ==
    LET Keeps(i) == \E k \in 1..Len(requests[loading_policy_files[i]]) :
                       WaitsAt(l, loading_policy_files[i], k)
    IN {loading_policy_files[j] : j \in
          {j \in 1..Len(loading_policy_files) : \E i \in 1..j : Keeps(i)}}

Granted == {host[f] : f \in allows}

AnswerOf(l) == CASE load[l] \in {"loading", "ended"} -> "yes"
                 [] load[l] = "denied" -> "no"
                 [] OTHER -> "none"

Requirement == INSTANCE AccessRequests WITH
    Clients <- Loads,
    wants <- url,
    waiting <- {l \in Loads : load[l] = "waiting"},
    needs <- [l \in Loads |-> Needs(l)],
    running <- Loading,
    granted <- Granted,
    answer <- [l \in Loads |-> AnswerOf(l)]

\* Passing the requests from file to file does what the requests need: each is
\* answered once, in the order of asking, after all files that were loading
\* then, by what the files that have arrived allow.
ImplementsRequirement == Requirement!Spec

\* The application drives the player and its loaders report an end.
Fairness ==
    /\ WF_vars(EndFrame)
    /\ WF_vars(RunRequest)
    /\ WF_vars(AnswerRequest)
    /\ \A f \in 1..(MaxLoads + MaxPolicies) :
          WF_vars(\E i \in 1..Len(loading_policy_files), allow \in BOOLEAN :
                     /\ loading_policy_files[i] = f
                     /\ FinishedLoading(i, allow))
    /\ \A l \in Loads : WF_vars(LoadEnds(l))

FairSpec == Spec /\ Fairness

\* Every load that a script creates comes to an end: finish is called even if
\* policy files fail or end in another order than they were started.
EveryLoadEnds ==
    \A l \in Loads :
       load[l] = "requested" ~> load[l] \in {"denied", "ended"}
=============================================================================
