-------------------------- MODULE PolicyFilesProofs --------------------------
(***************************************************************************)
(* Proofs about PolicyFiles for every set of hosts, every access matrix    *)
(* and any number of loads and policy files: where the waiting loads are   *)
(* kept (IInv) and that they are answered as AccessRequests promises.      *)
(***************************************************************************)
EXTENDS PolicyFiles, SequenceTheorems, TLAPS

(***************************************************************************)
(* Sequences                                                               *)
(***************************************************************************)
LEMMA AppendFacts ==
    ASSUME NEW S, NEW s \in Seq(S), NEW e \in S
    PROVE  /\ Append(s, e) \in Seq(S)
           /\ Len(s) \in Nat
           /\ Len(Append(s, e)) = Len(s) + 1
           /\ \A i \in 1..Len(s) : Append(s, e)[i] = s[i]
           /\ Append(s, e)[Len(s) + 1] = e
OBVIOUS

LEMMA TailFacts ==
    ASSUME NEW S, NEW s \in Seq(S), s # <<>>
    PROVE  /\ Tail(s) \in Seq(S)
           /\ Len(s) \in Nat \ {0}
           /\ Len(Tail(s)) = Len(s) - 1
           /\ \A i \in 1..Len(s) - 1 : Tail(s)[i] = s[i + 1]
           /\ Head(s) = s[1]
           /\ Head(s) \in S
OBVIOUS

LEMMA ConcatFacts ==
    ASSUME NEW S, NEW s \in Seq(S), NEW t \in Seq(S)
    PROVE  /\ s \o t \in Seq(S)
           /\ Len(s) \in Nat
           /\ Len(t) \in Nat
           /\ Len(s \o t) = Len(s) + Len(t)
           /\ \A i \in 1..Len(s) : (s \o t)[i] = s[i]
           /\ \A i \in Len(s) + 1..Len(s) + Len(t) : (s \o t)[i] = t[i - Len(s)]
BY ConcatProperties

\* An element put in front of a list.
LEMMA PrependFacts ==
    ASSUME NEW S, NEW s \in Seq(S), NEW e \in S
    PROVE  /\ <<e>> \o s \in Seq(S)
           /\ Len(s) \in Nat
           /\ Len(<<e>> \o s) = Len(s) + 1
           /\ (<<e>> \o s)[1] = e
           /\ \A i \in 2..Len(s) + 1 : (<<e>> \o s)[i] = s[i - 1]
<1>1. <<e>> \in Seq(S) /\ Len(<<e>>) = 1 /\ <<e>>[1] = e
  OBVIOUS
<1>2. QED
  BY <1>1, ConcatFacts

\* A list without one of its elements.
LEMMA WithoutFacts ==
    ASSUME NEW S, NEW s \in Seq(S), NEW p \in 1..Len(s)
    PROVE  /\ Without(s, p) \in Seq(S)
           /\ Len(s) \in Nat
           /\ Len(Without(s, p)) = Len(s) - 1
           /\ \A i \in 1..Len(s) - 1 :
                 Without(s, p)[i] = IF i < p THEN s[i] ELSE s[i + 1]
<1> DEFINE front == SubSeq(s, 1, p - 1)
           back == SubSeq(s, p + 1, Len(s))
<1>1. Len(s) \in Nat /\ p \in Nat /\ p <= Len(s) /\ 1 <= p
  OBVIOUS
<1>2. /\ front \in Seq(S) /\ Len(front) = p - 1
      /\ \A i \in 1..p - 1 : front[i] = s[i]
  OBVIOUS
<1>3. /\ back \in Seq(S) /\ Len(back) = Len(s) - p
      /\ \A i \in 1..Len(s) - p : back[i] = s[p + i]
  OBVIOUS
<1> HIDE DEF front, back
<1>4. /\ front \o back \in Seq(S)
      /\ Len(front \o back) = Len(s) - 1
      /\ \A i \in 1..p - 1 : (front \o back)[i] = front[i]
      /\ \A i \in p..Len(s) - 1 : (front \o back)[i] = back[i - (p - 1)]
  <2>1. /\ front \o back \in Seq(S)
        /\ Len(front \o back) = Len(front) + Len(back)
        /\ \A i \in 1..Len(front) : (front \o back)[i] = front[i]
        /\ \A i \in Len(front) + 1..Len(front) + Len(back) :
              (front \o back)[i] = back[i - Len(front)]
    BY <1>2, <1>3, ConcatFacts
  <2>2. Len(front) + Len(back) = Len(s) - 1 /\ Len(front) + 1 = p
    BY <1>1, <1>2, <1>3
  <2>3. QED
    BY <1>2, <2>1, <2>2
<1>5. \A i \in p..Len(s) - 1 : back[i - (p - 1)] = s[i + 1]
  BY <1>1, <1>3
<1>6. Without(s, p) = front \o back
  BY DEF Without, front, back
<1>7. QED
  BY <1>1, <1>2, <1>4, <1>5, <1>6

Distinct(s) == \A i, j \in 1..Len(s) : i # j => s[i] # s[j]
Elements(s) == {s[i] : i \in 1..Len(s)}

LEMMA PrependDistinct ==
    ASSUME NEW S, NEW s \in Seq(S), NEW e \in S, e \notin Elements(s), Distinct(s)
    PROVE  /\ Distinct(<<e>> \o s)
           /\ Elements(<<e>> \o s) = Elements(s) \union {e}
<1> DEFINE t == <<e>> \o s
<1>1. /\ Len(s) \in Nat /\ Len(t) = Len(s) + 1 /\ t[1] = e
      /\ \A i \in 2..Len(s) + 1 : t[i] = s[i - 1]
  BY PrependFacts
<1> HIDE DEF t
<1>2. \A i \in 1..Len(t) : i = 1 \/ (i - 1 \in 1..Len(s) /\ t[i] = s[i - 1])
  BY <1>1
<1>3. \A i \in 1..Len(s) : i + 1 \in 1..Len(t) /\ t[i + 1] = s[i]
  BY <1>1
<1>4. ASSUME NEW i \in 1..Len(t), NEW j \in 1..Len(t), i # j PROVE t[i] # t[j]
  <2>1. i \in Nat /\ j \in Nat
    BY <1>1
  <2>2. CASE i = 1
    BY <1>1, <1>2, <1>4, <2>2 DEF Elements
  <2>3. CASE j = 1
    BY <1>1, <1>2, <1>4, <2>3 DEF Elements
  <2>4. CASE i # 1 /\ j # 1
    <3>1. /\ i - 1 \in 1..Len(s) /\ j - 1 \in 1..Len(s)
          /\ t[i] = s[i - 1] /\ t[j] = s[j - 1]
      BY <1>2, <2>4
    <3>2. i - 1 # j - 1
      BY <1>4, <2>1
    <3>3. QED
      BY <3>1, <3>2 DEF Distinct
  <2>5. QED
    BY <2>2, <2>3, <2>4
<1>5. 1 \in 1..Len(t)
  BY <1>1
<1>6. Elements(t) \subseteq Elements(s) \union {e}
  BY <1>1, <1>2 DEF Elements
<1>7. Elements(s) \union {e} \subseteq Elements(t)
  BY <1>1, <1>3, <1>5 DEF Elements
<1>8. QED
  BY <1>4, <1>6, <1>7 DEF t, Distinct

LEMMA WithoutDistinct ==
    ASSUME NEW S, NEW s \in Seq(S), NEW p \in 1..Len(s), Distinct(s)
    PROVE  /\ Distinct(Without(s, p))
           /\ Elements(Without(s, p)) = Elements(s) \ {s[p]}
<1> DEFINE t == Without(s, p)
           from(i) == IF i < p THEN i ELSE i + 1
<1>1. /\ Len(s) \in Nat /\ Len(t) = Len(s) - 1
      /\ \A i \in 1..Len(s) - 1 : t[i] = IF i < p THEN s[i] ELSE s[i + 1]
  BY WithoutFacts
<1> HIDE DEF t
<1>2. \A i \in 1..Len(t) : /\ from(i) \in 1..Len(s) /\ from(i) # p
                           /\ t[i] = s[from(i)]
  BY <1>1
<1>3. \A i, j \in 1..Len(t) : i # j => from(i) # from(j)
  BY <1>1
<1>4. ASSUME NEW i \in 1..Len(s), i # p PROVE \E j \in 1..Len(t) : from(j) = i
  <2>1. CASE i < p
    <3>1. i \in 1..Len(t) /\ from(i) = i
      BY <1>1, <2>1
    <3>2. QED
      BY <3>1
  <2>2. CASE ~(i < p)
    <3>1. i - 1 \in 1..Len(t) /\ from(i - 1) = i
      BY <1>1, <1>4, <2>2
    <3>2. QED
      BY <3>1
  <2>3. QED
    BY <2>1, <2>2
<1> HIDE DEF from
<1>5. Distinct(t)
  BY <1>2, <1>3 DEF Distinct
<1>6. Elements(t) \subseteq Elements(s) \ {s[p]}
  BY <1>2 DEF Distinct, Elements
<1>7. ASSUME NEW x \in Elements(s), x # s[p] PROVE x \in Elements(t)
  <2>1. PICK i \in 1..Len(s) : x = s[i]
    BY DEF Elements
  <2>2. PICK j \in 1..Len(t) : from(j) = i
    BY <1>4, <1>7, <2>1
  <2>3. QED
    BY <1>2, <2>1, <2>2 DEF Elements
<1>8. QED
  BY <1>5, <1>6, <1>7 DEF t

(***************************************************************************)
(* The requests for resources                                              *)
(***************************************************************************)
LEMMA RequestFacts ==
    /\ \A l \in Loads : Load(l) \in Request
    /\ \A h \in Hosts : Policy(h) \in Request
    /\ \A r \in Request : r.kind = "load" => r.load \in Loads /\ r = Load(r.load)
    /\ \A r \in Request : r.kind = "policy" => r.host \in Hosts
    /\ \A r \in Request : r.kind = "policy" => \A l \in Loads : r # Load(l)
    /\ \A h \in Hosts, l \in Loads : Policy(h) # Load(l)
    /\ \A k, l \in Loads : Load(k) = Load(l) => k = l
<1>1. \A l \in Loads : Load(l) \in Request /\ Load(l).kind = "load"
  BY DEF Load, Request
<1>2. \A h \in Hosts : Policy(h) \in Request /\ Policy(h).kind = "policy"
  BY DEF Policy, Request
<1>3. \A r \in Request : r.kind = "load" => r.load \in Loads /\ r = Load(r.load)
  BY DEF Load, Request
<1>4. \A r \in Request : r.kind = "policy" => r.host \in Hosts
  BY DEF Request
<1>5. \A k, l \in Loads : Load(k) = Load(l) => k = l
  BY DEF Load
<1>6. QED
  BY <1>1, <1>2, <1>3, <1>4, <1>5

(***************************************************************************)
(* Type correctness                                                        *)
(***************************************************************************)
LEMMA NewFileType ==
    ASSUME TypeOK, NEW h \in Hosts, NEW w \in Seq(Loads), NewFile(h, w)
    PROVE  /\ host' \in Seq(Hosts)
           /\ Len(host') = Len(host) + 1
           /\ Len(host) \in Nat
           /\ requests' \in Seq(Seq(Loads))
           /\ Len(requests') = Len(host')
           /\ loading_policy_files' \in Seq(Files')
           /\ allows' \in SUBSET Files'
           /\ answering' \in Seq(Loads)
<1>1. host \in Seq(Hosts) /\ requests \in Seq(Seq(Loads)) /\ Len(requests) = Len(host)
      /\ loading_policy_files \in Seq(Files) /\ allows \in SUBSET Files
      /\ answering \in Seq(Loads)
  BY DEF TypeOK
<1>2. host' = Append(host, h) /\ requests' = Append(requests, w)
      /\ loading_policy_files' = <<Len(host) + 1>> \o loading_policy_files
      /\ allows' = allows /\ answering' = answering
  BY DEF NewFile
<1>3. host' \in Seq(Hosts) /\ Len(host) \in Nat /\ Len(host') = Len(host) + 1
  BY <1>1, <1>2, AppendFacts
<1>4. requests' \in Seq(Seq(Loads)) /\ Len(requests') = Len(host')
  BY <1>1, <1>2, <1>3, AppendFacts
<1>5. Files' = 1..Len(host) + 1 /\ Files \subseteq Files' /\ Len(host) + 1 \in Files'
  BY <1>3 DEF Files
<1>6. loading_policy_files \in Seq(Files')
  BY <1>1, <1>5, SeqMonotonic
<1>7. loading_policy_files' \in Seq(Files')
  BY <1>2, <1>5, <1>6, PrependFacts
<1>8. QED
  BY <1>1, <1>2, <1>3, <1>4, <1>5, <1>7

\* The requests after the file at position i has ended.
LEMMA MoveOnFacts ==
    ASSUME TypeOK, NEW i \in 1..Len(loading_policy_files), NEW f,
           f = loading_policy_files[i], MoveOn(f, i)
    PROVE  /\ requests' \in Seq(Seq(Loads))
           /\ Len(requests') = Len(host)
           /\ answering' \in Seq(Loads)
           /\ f \in Files
           /\ i < Len(loading_policy_files) =>
                 /\ answering' = answering
                 /\ loading_policy_files[i + 1] \in Files
                 /\ \A g \in Files :
                       requests'[g] = IF g = f THEN <<>>
                                      ELSE IF g = loading_policy_files[i + 1]
                                      THEN requests[g] \o requests[f]
                                      ELSE requests[g]
           /\ ~(i < Len(loading_policy_files)) =>
                 /\ answering' = requests[f]
                 /\ \A g \in Files :
                       requests'[g] = IF g = f THEN <<>> ELSE requests[g]
<1>1. requests \in Seq(Seq(Loads)) /\ Len(requests) = Len(host) /\ Len(host) \in Nat
      /\ loading_policy_files \in Seq(Files) /\ answering \in Seq(Loads)
  BY DEF TypeOK
<1>2. f \in Files /\ f \in 1..Len(requests) /\ Files = 1..Len(requests)
  BY <1>1, ElementOfSeq DEF Files
<1>3. requests[f] \in Seq(Loads) /\ <<>> \in Seq(Loads)
  BY <1>1, <1>2, ElementOfSeq
<1>4. CASE i < Len(loading_policy_files)
  <2> DEFINE next == loading_policy_files[i + 1]
             both == requests[next] \o requests[f]
             step == [requests EXCEPT ![next] = both]
  <2>1. i + 1 \in 1..Len(loading_policy_files)
    BY <1>1, <1>4
  <2>2. next \in Files
    BY <1>1, <2>1, ElementOfSeq
  <2>3. both \in Seq(Loads) /\ next \in 1..Len(requests)
    BY <1>1, <1>2, <1>3, <2>2, ElementOfSeq, ConcatFacts
  <2>4. requests' = [requests EXCEPT ![next] = both, ![f] = <<>>]
        /\ answering' = answering
    BY <1>4 DEF MoveOn
  <2>5. requests' = [step EXCEPT ![f] = <<>>]
    BY <2>4
  <2>6. /\ step \in Seq(Seq(Loads))
        /\ Len(step) = Len(requests)
        /\ \A j \in 1..Len(requests) :
              step[j] = IF j = next THEN both ELSE requests[j]
    <3> HIDE DEF next, both
    <3>1. QED
      BY <1>1, <2>3, ExceptSeq
  <2> HIDE DEF step
  <2>7. /\ requests' \in Seq(Seq(Loads))
        /\ Len(requests') = Len(step)
        /\ \A j \in 1..Len(step) : requests'[j] = IF j = f THEN <<>> ELSE step[j]
    BY <1>2, <1>3, <2>5, <2>6, ExceptSeq
  <2>8. QED
    BY <1>1, <1>2, <1>4, <2>2, <2>4, <2>6, <2>7
<1>5. CASE ~(i < Len(loading_policy_files))
  <2>1. requests' = [requests EXCEPT ![f] = <<>>] /\ answering' = requests[f]
    BY <1>5 DEF MoveOn
  <2>2. /\ requests' \in Seq(Seq(Loads))
        /\ Len(requests') = Len(requests)
        /\ \A j \in 1..Len(requests) : requests'[j] = IF j = f THEN <<>> ELSE requests[j]
    BY <1>1, <1>2, <1>3, <2>1, ExceptSeq
  <2>3. QED
    BY <1>1, <1>2, <1>3, <1>5, <2>1, <2>2
<1>6. QED
  BY <1>4, <1>5

LEMMA TypeStep == TypeOK /\ [Next]_vars => TypeOK'
<1> SUFFICES ASSUME TypeOK, [Next]_vars PROVE TypeOK'
  OBVIOUS
<1>1. CASE UNCHANGED vars
  BY <1>1 DEF TypeOK, vars, files, history, Files
<1>2. ASSUME NEW l \in Loads, Create(l) PROVE TypeOK'
  <2>1. resource_requests' \in Seq(Request)
    BY <1>2, RequestFacts, AppendFacts DEF TypeOK, Create
  <2>2. QED
    BY <1>2, <2>1 DEF TypeOK, Create, files, history, Files
<1>3. ASSUME NEW l \in Loads, LoadEnds(l) PROVE TypeOK'
  BY <1>3 DEF TypeOK, LoadEnds, files, history, Files
<1>4. ASSUME NEW h \in Hosts, LoadPolicyFile(h) PROVE TypeOK'
  <2>1. resource_requests' \in Seq(Request)
    BY <1>4, RequestFacts, AppendFacts DEF TypeOK, LoadPolicyFile
  <2>2. QED
    BY <1>4, <2>1 DEF TypeOK, LoadPolicyFile, files, history, Files
<1>5. CASE EndFrame
  BY <1>5 DEF TypeOK, EndFrame, files, history, Files
<1>6. CASE RunRequest
  <2>1. /\ run \in Seq(Request) /\ run # <<>> /\ run' = Tail(run)
        /\ UNCHANGED <<url, resource_requests, policies>>
    BY <1>6 DEF RunRequest, TypeOK
  <2>2. run' \in Seq(Request) /\ Head(run) \in Request
    BY <2>1, TailFacts
  <2>3. ASSUME NEW h \in Hosts, RunPolicy(h) PROVE TypeOK'
    <3>1. NewFile(h, <<>>) /\ UNCHANGED <<load, asked, ticket>> /\ <<>> \in Seq(Loads)
      BY <2>3 DEF RunPolicy, history
    <3>2. QED
      BY <2>1, <2>2, <3>1, NewFileType DEF TypeOK
  <2>4. ASSUME NEW l \in Loads, RunLoad(l) PROVE TypeOK'
    <3>1. CASE UNCHANGED <<files, history>>
      <4>1. load' \in [Loads -> {"none", "requested", "waiting", "denied", "loading", "ended"}]
        BY <2>4 DEF RunLoad, Answered, TypeOK
      <4>2. QED
        BY <2>1, <2>2, <3>1, <4>1 DEF TypeOK, files, history, Files
    <3>2. CASE /\ load' = [load EXCEPT ![l] = "waiting"]
               /\ NewFile(url[l], <<l>>)
               /\ asked' = asked + 1
               /\ ticket' = [ticket EXCEPT ![l] = asked + 1]
      <4>1. url[l] \in Hosts /\ <<l>> \in Seq(Loads)
        BY DEF TypeOK
      <4>2. asked' \in Nat /\ ticket' \in [Loads -> Nat]
            /\ load' \in [Loads -> {"none", "requested", "waiting", "denied", "loading", "ended"}]
        BY <3>2 DEF TypeOK
      <4>3. QED
        BY <2>1, <2>2, <3>2, <4>1, <4>2, NewFileType DEF TypeOK
    <3>3. QED
      BY <2>4, <3>1, <3>2 DEF RunLoad
  <2>5. QED
    BY <1>6, <2>2, <2>3, <2>4, RequestFacts DEF RunRequest
<1>7. ASSUME NEW i \in 1..Len(loading_policy_files), NEW allow \in BOOLEAN,
             FinishedLoading(i, allow)
      PROVE  TypeOK'
  <2> DEFINE f == loading_policy_files[i]
  <2>1. f \in Files /\ loading_policy_files \in Seq(Files)
    BY DEF TypeOK
  <2>2. MoveOn(f, i) /\ loading_policy_files' = Without(loading_policy_files, i)
        /\ allows' = (IF allow THEN allows \union {f} ELSE allows)
        /\ UNCHANGED <<load, url, resource_requests, run, policies, host, asked, ticket>>
    BY <1>7 DEF FinishedLoading, history
  <2>3. Files' = Files /\ Len(host') = Len(host)
    BY <2>2 DEF Files
  <2>4. loading_policy_files' \in Seq(Files)
    BY <2>1, <2>2, WithoutFacts
  <2>5. allows' \in SUBSET Files
    BY <2>1, <2>2 DEF TypeOK
  <2>6. requests' \in Seq(Seq(Loads)) /\ Len(requests') = Len(host) /\ answering' \in Seq(Loads)
    BY <2>2, MoveOnFacts
  <2> HIDE DEF f
  <2>7. QED
    BY <2>2, <2>3, <2>4, <2>5, <2>6 DEF TypeOK
<1>8. CASE AnswerRequest
  <2>1. answering' \in Seq(Loads) /\ Head(answering) \in Loads
    BY <1>8, TailFacts DEF TypeOK, AnswerRequest
  <2>2. load' \in [Loads -> {"none", "requested", "waiting", "denied", "loading", "ended"}]
    BY <1>8 DEF AnswerRequest, Answered, TypeOK
  <2>3. QED
    BY <1>8, <2>1, <2>2 DEF TypeOK, AnswerRequest, history, Files
<1>9. QED
  BY <1>1, <1>2, <1>3, <1>4, <1>5, <1>6, <1>7, <1>8 DEF Next
(***************************************************************************)
(* A file loads only once                                                  *)
(***************************************************************************)
LEMMA FilesStep ==
    TypeOK /\ FilesLoadOnce /\ [Next]_vars => FilesLoadOnce'
<1> SUFFICES ASSUME TypeOK, FilesLoadOnce, [Next]_vars PROVE FilesLoadOnce'
  OBVIOUS
<1>0. /\ loading_policy_files \in Seq(Files) /\ allows \in SUBSET Files
      /\ Len(host) \in Nat /\ Len(loading_policy_files) \in Nat
      /\ requests \in Seq(Seq(Loads)) /\ Len(requests) = Len(host)
  BY DEF TypeOK
<1>1. CASE UNCHANGED <<loading_policy_files, allows, requests, host>>
  BY <1>1 DEF FilesLoadOnce, Loading, Files
<1>2. ASSUME NEW h \in Hosts, NEW w \in Seq(Loads), NewFile(h, w) PROVE FilesLoadOnce'
  <2>1. /\ loading_policy_files' = <<Len(host) + 1>> \o loading_policy_files
        /\ allows' = allows
        /\ requests' = Append(requests, w)
        /\ Len(host') = Len(host) + 1
    BY <1>2, NewFileType DEF NewFile
  <2>2. loading_policy_files \in Seq(Nat) /\ Len(host) + 1 \in Nat
    BY <1>0, SeqMonotonic DEF Files
  <2>3. Loading \subseteq 1..Len(host)
    BY <1>0, ElementOfSeq DEF Files, Loading
  <2>4. Distinct(loading_policy_files) /\ Elements(loading_policy_files) = Loading
    BY DEF Distinct, Elements, Loading, FilesLoadOnce
  <2>5. Distinct(loading_policy_files') /\ Elements(loading_policy_files') = Loading'
           => \A k, m \in 1..Len(loading_policy_files') :
                 k # m => loading_policy_files'[k] # loading_policy_files'[m]
    BY DEF Distinct
  <2>6. /\ \A k, m \in 1..Len(loading_policy_files') :
              k # m => loading_policy_files'[k] # loading_policy_files'[m]
        /\ Loading' = Loading \union {Len(host) + 1}
    <3>1. Len(host) + 1 \notin Elements(loading_policy_files)
      BY <1>0, <2>3, <2>4
    <3>2. Elements(loading_policy_files') = Loading'
      BY DEF Elements, Loading
    <3>3. QED
      BY <2>1, <2>2, <2>4, <2>5, <3>1, <3>2, PrependDistinct
  <2>7. Len(host) + 1 \notin allows
    BY <1>0 DEF Files
  <2>8. \A f \in Files' : f # Len(host) + 1 => f \in Files /\ requests'[f] = requests[f]
    BY <1>0, <2>1, AppendFacts DEF Files
  <2>9. QED
    BY <2>1, <2>6, <2>7, <2>8 DEF FilesLoadOnce
<1>3. ASSUME NEW i \in 1..Len(loading_policy_files), NEW allow \in BOOLEAN,
             FinishedLoading(i, allow)
      PROVE  FilesLoadOnce'
  <2> DEFINE f == loading_policy_files[i]
  <2>1. /\ MoveOn(f, i)
        /\ loading_policy_files' = Without(loading_policy_files, i)
        /\ allows' = (IF allow THEN allows \union {f} ELSE allows)
        /\ host' = host
    BY <1>3 DEF FinishedLoading
  <2>2. Distinct(loading_policy_files) /\ Elements(loading_policy_files) = Loading
    BY DEF Distinct, Elements, Loading, FilesLoadOnce
  <2>3. Elements(loading_policy_files') = Loading'
    BY DEF Elements, Loading
  <2>4. Distinct(loading_policy_files') /\ Loading' = Loading \ {f}
    BY <1>0, <2>1, <2>2, <2>3, WithoutDistinct
  <2>5. \A g \in Files' : g \notin Loading' => requests'[g] = <<>>
    <3> SUFFICES ASSUME NEW g \in Files', g \notin Loading' PROVE requests'[g] = <<>>
      OBVIOUS
    <3>1. g \in Files
      BY <2>1 DEF Files
    <3>2. CASE g = f
      BY <2>1, <3>1, <3>2, MoveOnFacts
    <3>3. CASE g # f
      <4>1. g \notin Loading /\ requests[g] = <<>>
        BY <2>4, <3>1, <3>3 DEF FilesLoadOnce
      <4>2. i < Len(loading_policy_files) => g # loading_policy_files[i + 1]
        BY <1>0, <4>1 DEF Loading
      <4>3. QED
        BY <2>1, <3>1, <3>3, <4>1, <4>2, MoveOnFacts
    <3>4. QED
      BY <3>2, <3>3
  <2>6. \A g \in allows' : g \notin Loading'
    BY <2>1, <2>4 DEF FilesLoadOnce
  <2> HIDE DEF f
  <2>7. QED
    BY <2>4, <2>5, <2>6 DEF FilesLoadOnce, Distinct
<1>4. CASE RunRequest
  <2>1. run \in Seq(Request) /\ run # <<>> /\ url \in [Loads -> Hosts]
    BY <1>4 DEF RunRequest, TypeOK
  <2>2. Head(run) \in Request
    BY <2>1, TailFacts
  <2>3. ASSUME NEW h \in Hosts, RunPolicy(h) PROVE FilesLoadOnce'
    <3>1. <<>> \in Seq(Loads)
      OBVIOUS
    <3>2. QED
      BY <1>2, <2>3, <3>1 DEF RunPolicy
  <2>4. ASSUME NEW l \in Loads, RunLoad(l) PROVE FilesLoadOnce'
    <3>1. <<l>> \in Seq(Loads) /\ url[l] \in Hosts
      BY <2>1
    <3>2. UNCHANGED files \/ NewFile(url[l], <<l>>)
      BY <2>4 DEF RunLoad
    <3>3. QED
      BY <1>1, <1>2, <3>1, <3>2 DEF files
  <2>5. QED
    BY <1>4, <2>2, <2>3, <2>4, RequestFacts DEF RunRequest
<1>5. CASE UNCHANGED vars
  BY <1>1, <1>5 DEF vars, files
<1>6. ASSUME NEW l \in Loads, Create(l) \/ LoadEnds(l) PROVE FilesLoadOnce'
  BY <1>1, <1>6 DEF Create, LoadEnds, files
<1>7. ASSUME NEW h \in Hosts, LoadPolicyFile(h) PROVE FilesLoadOnce'
  BY <1>1, <1>7 DEF LoadPolicyFile, files
<1>8. CASE EndFrame
  BY <1>1, <1>8 DEF EndFrame, files
<1>9. CASE AnswerRequest
  BY <1>1, <1>9 DEF AnswerRequest
<1>10. QED
  BY <1>3, <1>4, <1>5, <1>6, <1>7, <1>8, <1>9 DEF Next
(***************************************************************************)
(* A load is requested once                                                *)
(***************************************************************************)
\* What RequestedOnce says about one load.
RequestedOnceOf(l) ==
    /\ load[l] = "requested"
          <=> \/ \E i \in 1..Len(run) : Executes(l, i)
              \/ \E i \in 1..Len(resource_requests) : Queues(l, i)
    /\ \A i, j \in 1..Len(run) : Executes(l, i) /\ Executes(l, j) => i = j
    /\ \A i, j \in 1..Len(resource_requests) :
          Queues(l, i) /\ Queues(l, j) => i = j
    /\ \A i \in 1..Len(run), j \in 1..Len(resource_requests) :
          ~(Executes(l, i) /\ Queues(l, j))

LEMMA RequestedUnchanged ==
    ASSUME RequestedOnce, UNCHANGED <<run, resource_requests>>,
           \A k \in Loads : load'[k] = "requested" <=> load[k] = "requested"
    PROVE  RequestedOnce'
BY DEF RequestedOnce, Executes, Queues

LEMMA RunLoadEffect ==
    ASSUME TypeOK, NEW l \in Loads, RunLoad(l)
    PROVE  /\ \A k \in Loads \ {l} : load'[k] = load[k]
           /\ load'[l] \in {"waiting", "denied", "loading"}
BY DEF TypeOK, RunLoad, Answered

LEMMA HeadWaits ==
    ASSUME TypeOK, WaitingIsKept, answering # <<>>
    PROVE  /\ Head(answering) \in Loads
           /\ Head(answering) = answering[1]
           /\ load[Head(answering)] = "waiting"
<1>1. /\ Len(answering) \in Nat \ {0} /\ Head(answering) = answering[1]
      /\ Head(answering) \in Loads
  BY TailFacts DEF TypeOK
<1>2. 1 \in 1..Len(answering) /\ IsAnswered(Head(answering), 1)
  BY <1>1 DEF IsAnswered
<1>3. QED
  BY <1>1, <1>2 DEF WaitingIsKept

LEMMA RequestedStep ==
    TypeOK /\ RequestedOnce /\ WaitingIsKept /\ [Next]_vars => RequestedOnce'
<1> SUFFICES ASSUME TypeOK, RequestedOnce, WaitingIsKept, [Next]_vars PROVE RequestedOnce'
  OBVIOUS
<1>0. /\ load \in [Loads -> {"none", "requested", "waiting", "denied", "loading", "ended"}]
      /\ run \in Seq(Request) /\ resource_requests \in Seq(Request)
      /\ Len(run) \in Nat /\ Len(resource_requests) \in Nat
      /\ answering \in Seq(Loads)
  BY DEF TypeOK
<1>1. ASSUME NEW l \in Loads, Create(l) PROVE RequestedOnce'
  <2>1. /\ load[l] = "none" /\ load' = [load EXCEPT ![l] = "requested"] /\ run' = run
        /\ resource_requests' = Append(resource_requests, Load(l))
    BY <1>1 DEF Create
  <2>2. /\ Len(resource_requests') = Len(resource_requests) + 1
        /\ \A i \in 1..Len(resource_requests) : resource_requests'[i] = resource_requests[i]
        /\ resource_requests'[Len(resource_requests) + 1] = Load(l)
    BY <1>0, <2>1, RequestFacts, AppendFacts
  <2>3. ASSUME NEW k \in Loads PROVE RequestedOnceOf(k)'
    <3>1. RequestedOnceOf(k)
      BY DEF RequestedOnce, RequestedOnceOf
    <3>2. CASE k = l
      <4>1. (\A i \in 1..Len(run) : ~Executes(k, i))
            /\ (\A i \in 1..Len(resource_requests) : ~Queues(k, i))
        BY <2>1, <3>1, <3>2 DEF RequestedOnceOf
      <4>2. \A i : Executes(k, i)' <=> Executes(k, i)
        BY <2>1 DEF Executes
      <4>3. \A i \in 1..Len(resource_requests') :
               Queues(k, i)' <=> i = Len(resource_requests) + 1
        BY <1>0, <2>2, <3>2, <4>1 DEF Queues
      <4>4. Len(resource_requests) + 1 \in 1..Len(resource_requests')
        BY <1>0, <2>2
      <4>5. load'[k] = "requested"
        BY <1>0, <2>1, <3>2
      <4>6. QED
        BY <2>1, <4>1, <4>2, <4>3, <4>4, <4>5 DEF RequestedOnceOf
    <3>3. CASE k # l
      <4>1. \A i : Executes(k, i)' <=> Executes(k, i)
        BY <2>1 DEF Executes
      <4>2. Load(k) # Load(l)
        BY <3>3, RequestFacts
      <4>3. \A i : Queues(k, i)' <=> Queues(k, i)
        BY <1>0, <2>2, <4>2 DEF Queues
      <4>4. \A i : Queues(k, i) => i \in 1..Len(resource_requests)
        BY DEF Queues
      <4>5. load'[k] = load[k] /\ 1..Len(run') = 1..Len(run)
        BY <2>1, <1>0, <3>3
      <4>6. 1..Len(resource_requests) \subseteq 1..Len(resource_requests')
        BY <1>0, <2>2
      <4>7. QED
        BY <3>1, <4>1, <4>3, <4>4, <4>5, <4>6 DEF RequestedOnceOf
    <3>4. QED
      BY <3>2, <3>3
  <2>4. QED
    BY <2>3 DEF RequestedOnce, RequestedOnceOf
<1>2. CASE EndFrame
  <2>1. run = <<>> /\ run' = resource_requests /\ resource_requests' = <<>> /\ load' = load
    BY <1>2 DEF EndFrame, Idle
  <2>2. ASSUME NEW k \in Loads PROVE RequestedOnceOf(k)'
    <3>1. RequestedOnceOf(k)
      BY DEF RequestedOnce, RequestedOnceOf
    <3>2. \A i : ~Executes(k, i) /\ ~Queues(k, i)' /\ (Executes(k, i)' <=> Queues(k, i))
      BY <2>1 DEF Executes, Queues
    <3>3. 1..Len(run') = 1..Len(resource_requests)
      BY <2>1
    <3>4. QED
      BY <2>1, <3>1, <3>2, <3>3 DEF RequestedOnceOf
  <2>3. QED
    BY <2>2 DEF RequestedOnce, RequestedOnceOf
<1>3. CASE RunRequest
  <2>1. /\ run # <<>> /\ run' = Tail(run) /\ resource_requests' = resource_requests
        /\ \/ Head(run).kind = "policy" /\ RunPolicy(Head(run).host)
           \/ Head(run).kind = "load" /\ RunLoad(Head(run).load)
    BY <1>3 DEF RunRequest
  <2>2. /\ Len(run) \in Nat \ {0} /\ Len(run') = Len(run) - 1
        /\ \A i \in 1..Len(run) - 1 : run'[i] = run[i + 1]
        /\ Head(run) = run[1] /\ run[1] \in Request
    BY <1>0, <2>1, TailFacts
  <2>3. ASSUME NEW k \in Loads PROVE RequestedOnceOf(k)'
    <3>1. RequestedOnceOf(k)
      BY DEF RequestedOnce, RequestedOnceOf
    <3>2. \A i \in 1..Len(run') : i + 1 \in 1..Len(run) /\ (Executes(k, i)' <=> Executes(k, i + 1))
      BY <2>2 DEF Executes
    <3>3. \A i : Queues(k, i)' <=> Queues(k, i)
      BY <2>1 DEF Queues
    <3>4. Executes(k, 1) <=> run[1] = Load(k)
      BY <2>2 DEF Executes
    <3>5. CASE run[1] = Load(k)
      <4>1. load'[k] # "requested"
        <5>1. run[1].kind = "load" /\ run[1].load = k
          BY <3>5 DEF Load
        <5>2. RunLoad(k)
          BY <2>1, <2>2, <5>1
        <5>3. QED
          BY <5>2, RunLoadEffect
      <4>2. 1 \in 1..Len(run) /\ Executes(k, 1)
        BY <2>2, <3>4, <3>5
      <4>3. \A i \in 1..Len(run') : ~Executes(k, i)'
        <5>1. ASSUME NEW i \in 1..Len(run'), Executes(k, i)' PROVE FALSE
          <6>1. i + 1 \in 1..Len(run) /\ Executes(k, i + 1) /\ i + 1 # 1
            BY <2>2, <3>2, <5>1
          <6>2. QED
            BY <3>1, <4>2, <6>1 DEF RequestedOnceOf
        <5>2. QED
          BY <5>1
      <4>4. \A i \in 1..Len(resource_requests) : ~Queues(k, i)
        BY <3>1, <4>2 DEF RequestedOnceOf
      <4>5. QED
        BY <2>1, <3>3, <4>1, <4>3, <4>4 DEF RequestedOnceOf
    <3>6. CASE run[1] # Load(k)
      <4>1. load'[k] = load[k]
        <5>1. CASE Head(run).kind = "policy" /\ RunPolicy(Head(run).host)
          BY <5>1 DEF RunPolicy
        <5>2. CASE Head(run).kind = "load" /\ RunLoad(Head(run).load)
          <6>1. run[1].load \in Loads /\ run[1].load # k
            BY <2>2, <3>6, <5>2, RequestFacts
          <6>2. QED
            BY <2>2, <5>2, <6>1, RunLoadEffect
        <5>3. QED
          BY <2>1, <5>1, <5>2
      <4>2. \A i \in 1..Len(run) : Executes(k, i) =>
               i - 1 \in 1..Len(run') /\ Executes(k, i - 1)'
        <5>1. ASSUME NEW i \in 1..Len(run), Executes(k, i)
              PROVE  i - 1 \in 1..Len(run') /\ Executes(k, i - 1)'
          <6>1. i # 1
            BY <3>4, <3>6, <5>1
          <6>2. i - 1 \in 1..Len(run') /\ (i - 1) + 1 = i
            BY <2>2, <6>1
          <6>3. QED
            BY <3>2, <5>1, <6>2
        <5>2. QED
          BY <5>1
      <4>3. (\E i \in 1..Len(run') : Executes(k, i)') <=> (\E i \in 1..Len(run) : Executes(k, i))
        BY <3>2, <4>2
      <4>4. \A i, j \in 1..Len(run') : Executes(k, i)' /\ Executes(k, j)' => i = j
        <5>1. ASSUME NEW i \in 1..Len(run'), NEW j \in 1..Len(run'),
                     Executes(k, i)', Executes(k, j)'
              PROVE  i = j
          <6>1. i + 1 = j + 1
            BY <3>1, <3>2, <5>1 DEF RequestedOnceOf
          <6>2. QED
            BY <2>2, <6>1
        <5>2. QED
          BY <5>1
      <4>5. QED
        BY <2>1, <3>1, <3>2, <3>3, <4>1, <4>3, <4>4 DEF RequestedOnceOf
    <3>7. QED
      BY <3>5, <3>6
  <2>4. QED
    BY <2>3 DEF RequestedOnce, RequestedOnceOf
<1>4. ASSUME NEW l \in Loads, LoadEnds(l) PROVE RequestedOnce'
  <2>1. /\ load[l] = "loading" /\ load' = [load EXCEPT ![l] = "ended"]
        /\ UNCHANGED <<run, resource_requests>>
    BY <1>4 DEF LoadEnds
  <2>2. \A k \in Loads : load'[k] = "requested" <=> load[k] = "requested"
    BY <1>0, <2>1
  <2>3. QED
    BY <2>1, <2>2, RequestedUnchanged
<1>5. ASSUME NEW h \in Hosts, LoadPolicyFile(h) PROVE RequestedOnce'
  <2>1. /\ load' = load /\ run' = run
        /\ resource_requests' = Append(resource_requests, Policy(h))
    BY <1>5 DEF LoadPolicyFile
  <2>2. /\ Len(resource_requests') = Len(resource_requests) + 1
        /\ \A i \in 1..Len(resource_requests) : resource_requests'[i] = resource_requests[i]
        /\ resource_requests'[Len(resource_requests) + 1] = Policy(h)
    BY <1>0, <2>1, RequestFacts, AppendFacts
  <2>3. ASSUME NEW k \in Loads PROVE RequestedOnceOf(k)'
    <3>1. RequestedOnceOf(k)
      BY DEF RequestedOnce, RequestedOnceOf
    <3>2. \A i : Executes(k, i)' <=> Executes(k, i)
      BY <2>1 DEF Executes
    <3>3. Policy(h) # Load(k)
      BY RequestFacts
    <3>4. \A i : Queues(k, i)' <=> Queues(k, i)
      BY <1>0, <2>2, <3>3 DEF Queues
    <3>5. \A i : Queues(k, i) => i \in 1..Len(resource_requests)
      BY DEF Queues
    <3>6. 1..Len(resource_requests) \subseteq 1..Len(resource_requests')
      BY <1>0, <2>2
    <3>7. QED
      BY <2>1, <3>1, <3>2, <3>4, <3>5, <3>6 DEF RequestedOnceOf
  <2>4. QED
    BY <2>3 DEF RequestedOnce, RequestedOnceOf
<1>6. ASSUME NEW i \in 1..Len(loading_policy_files), NEW allow \in BOOLEAN,
             FinishedLoading(i, allow)
      PROVE  RequestedOnce'
  BY <1>6, RequestedUnchanged DEF FinishedLoading
<1>7. CASE AnswerRequest
  <2>1. /\ answering # <<>>
        /\ Answered(Head(answering), Allowed(url[Head(answering)]))
        /\ UNCHANGED <<run, resource_requests>>
    BY <1>7 DEF AnswerRequest
  <2>2. load[Head(answering)] = "waiting"
    BY <1>0, <2>1, HeadWaits
  <2>3. \A k \in Loads : load'[k] = "requested" <=> load[k] = "requested"
    BY <1>0, <2>1, <2>2 DEF Answered
  <2>4. QED
    BY <2>1, <2>3, RequestedUnchanged
<1>8. CASE UNCHANGED vars
  BY <1>8, RequestedUnchanged DEF vars
<1>9. QED
  BY <1>1, <1>2, <1>3, <1>4, <1>5, <1>6, <1>7, <1>8 DEF Next
(***************************************************************************)
(* Waiting loads are kept, in their order                                  *)
(***************************************************************************)
LEMMA KeptFacts ==
    /\ WaitingIsKept <=>
          \A l \in Loads : load[l] = "waiting" <=>
             (\E f \in Files : l \in Elements(requests[f])) \/ l \in Elements(answering)
    /\ (WaitingIsKept <=>
          \A l \in Loads : load[l] = "waiting" <=>
             (\E f \in Files : l \in Elements(requests[f])) \/ l \in Elements(answering))'
BY DEF WaitingIsKept, Elements, WaitsAt, IsAnswered

LEMMA ElementsFacts ==
    ASSUME NEW S
    PROVE  /\ \A e \in S, s \in Seq(S) : Elements(Append(s, e)) = Elements(s) \union {e}
           /\ \A s, t \in Seq(S) : Elements(s \o t) = Elements(s) \union Elements(t)
           /\ Elements(<<>>) = {}
           /\ \A e \in S : Elements(<<e>>) = {e}
           /\ \A s \in Seq(S) : Elements(s) \subseteq S
           /\ \A s \in Seq(S) : s # <<>> =>
                 Elements(Tail(s)) = {s[i] : i \in 2..Len(s)}
<1>1. ASSUME NEW e \in S, NEW s \in Seq(S)
      PROVE  Elements(Append(s, e)) = Elements(s) \union {e}
  BY <1>1, AppendFacts DEF Elements
<1>2. ASSUME NEW s \in Seq(S), NEW t \in Seq(S)
      PROVE  Elements(s \o t) = Elements(s) \union Elements(t)
  <2> DEFINE u == s \o t
  <2>1. /\ Len(s) \in Nat /\ Len(t) \in Nat /\ Len(u) = Len(s) + Len(t)
        /\ \A i \in 1..Len(s) : u[i] = s[i]
        /\ \A i \in Len(s) + 1..Len(s) + Len(t) : u[i] = t[i - Len(s)]
    BY ConcatFacts
  <2> HIDE DEF u
  <2>2. \A i \in 1..Len(u) : i \in 1..Len(s) \/ (i \in Len(s) + 1..Len(s) + Len(t) /\ i - Len(s) \in 1..Len(t))
    BY <2>1
  <2>3. Elements(u) \subseteq Elements(s) \union Elements(t)
    BY <2>1, <2>2 DEF Elements
  <2>4. \A i \in 1..Len(s) : i \in 1..Len(u)
    BY <2>1
  <2>5. \A i \in 1..Len(t) : /\ Len(s) + i \in 1..Len(u)
                             /\ Len(s) + i \in Len(s) + 1..Len(s) + Len(t)
                             /\ (Len(s) + i) - Len(s) = i
    BY <2>1
  <2>6. Elements(s) \subseteq Elements(u)
    BY <2>1, <2>4 DEF Elements
  <2>7. \A i \in 1..Len(t) : Len(s) + i \in 1..Len(u) /\ u[Len(s) + i] = t[i]
    BY <2>1, <2>5
  <2>8. Elements(t) \subseteq Elements(u)
    BY <2>7 DEF Elements
  <2>9. QED
    BY <2>3, <2>6, <2>8 DEF u
<1>3. Elements(<<>>) = {}
  BY DEF Elements
<1>4. \A e \in S : Elements(<<e>>) = {e}
  BY DEF Elements
<1>5. \A s \in Seq(S) : Elements(s) \subseteq S
  BY ElementOfSeq DEF Elements
<1>6. ASSUME NEW s \in Seq(S), s # <<>>
      PROVE  Elements(Tail(s)) = {s[i] : i \in 2..Len(s)}
  <2> DEFINE u == Tail(s)
  <2>1. /\ Len(s) \in Nat \ {0} /\ Len(u) = Len(s) - 1
        /\ \A i \in 1..Len(s) - 1 : u[i] = s[i + 1]
    BY <1>6, TailFacts
  <2> HIDE DEF u
  <2>2. \A i \in 1..Len(u) : i + 1 \in 2..Len(s) /\ u[i] = s[i + 1]
    BY <2>1
  <2>3. \A i \in 2..Len(s) : i - 1 \in 1..Len(u) /\ u[i - 1] = s[i]
    BY <2>1
  <2>4. Elements(u) = {s[i] : i \in 2..Len(s)}
    BY <2>2, <2>3 DEF Elements
  <2>5. QED
    BY <2>4 DEF u
<1>7. QED
  BY <1>1, <1>2, <1>3, <1>4, <1>5, <1>6
\* Order by the tickets t.
Increasing(t, s) == \A k, m \in 1..Len(s) : k < m => t[s[k]] < t[s[m]]
Below(t, A, B) == \A a \in A, b \in B : t[a] < t[b]

Ordered ==
    /\ \A f \in Files : Increasing(ticket, requests[f])
    /\ \A i, j \in 1..Len(loading_policy_files) : i < j =>
          Below(ticket, Elements(requests[loading_policy_files[j]]),
                        Elements(requests[loading_policy_files[i]]))
    /\ Increasing(ticket, answering)
    /\ \A f \in Files : Below(ticket, Elements(answering), Elements(requests[f]))
    /\ \A l \in Loads : ticket[l] <= asked

LEMMA OrderFacts ==
    (WaitingInOrder <=> Ordered) /\ (WaitingInOrder <=> Ordered)'
BY DEF WaitingInOrder, Ordered, Increasing, Below, Elements

LEMMA IncreasingConcat ==
    ASSUME NEW S, NEW t, NEW s \in Seq(S), NEW u \in Seq(S),
           Increasing(t, s), Increasing(t, u), Below(t, Elements(s), Elements(u))
    PROVE  Increasing(t, s \o u)
<1> DEFINE v == s \o u
<1>1. /\ Len(s) \in Nat /\ Len(u) \in Nat /\ Len(v) = Len(s) + Len(u)
      /\ \A i \in 1..Len(s) : v[i] = s[i]
      /\ \A i \in Len(s) + 1..Len(s) + Len(u) : v[i] = u[i - Len(s)]
  BY ConcatFacts
<1> HIDE DEF v
<1>2. ASSUME NEW k \in 1..Len(v), NEW m \in 1..Len(v), k < m PROVE t[v[k]] < t[v[m]]
  <2>1. k \in Nat /\ m \in Nat
    BY <1>1
  <2>2. CASE m <= Len(s)
    <3>1. k \in 1..Len(s) /\ m \in 1..Len(s)
      BY <1>1, <1>2, <2>1, <2>2
    <3>2. QED
      BY <1>1, <1>2, <3>1 DEF Increasing
  <2>3. CASE k <= Len(s) /\ m > Len(s)
    <3>1. k \in 1..Len(s) /\ m - Len(s) \in 1..Len(u) /\ m \in Len(s) + 1..Len(s) + Len(u)
      BY <1>1, <1>2, <2>1, <2>3
    <3>2. v[k] \in Elements(s) /\ v[m] \in Elements(u)
      BY <1>1, <3>1 DEF Elements
    <3>3. QED
      BY <3>2 DEF Below
  <2>4. CASE k > Len(s)
    <3>1. /\ k - Len(s) \in 1..Len(u) /\ k \in Len(s) + 1..Len(s) + Len(u)
          /\ m - Len(s) \in 1..Len(u) /\ m \in Len(s) + 1..Len(s) + Len(u)
          /\ k - Len(s) < m - Len(s)
      BY <1>1, <1>2, <2>1, <2>4
    <3>2. v[k] = u[k - Len(s)] /\ v[m] = u[m - Len(s)]
      BY <1>1, <3>1
    <3>3. QED
      BY <3>1, <3>2 DEF Increasing
  <2>5. QED
    BY <1>1, <2>1, <2>2, <2>3, <2>4
<1>3. QED
  BY <1>2 DEF v, Increasing

LEMMA IncreasingTail ==
    ASSUME NEW S, NEW t, NEW s \in Seq(S), s # <<>>, Increasing(t, s)
    PROVE  /\ Increasing(t, Tail(s))
           /\ Below(t, {Head(s)}, Elements(Tail(s)))
           /\ Elements(s) = Elements(Tail(s)) \union {Head(s)}
<1> DEFINE u == Tail(s)
<1>1. /\ Len(s) \in Nat \ {0} /\ Len(u) = Len(s) - 1 /\ Head(s) = s[1]
      /\ \A i \in 1..Len(s) - 1 : u[i] = s[i + 1]
  BY TailFacts
<1>2. Elements(u) = {s[i] : i \in 2..Len(s)}
  BY ElementsFacts
<1> HIDE DEF u
<1>3. \A i \in 1..Len(u) : i + 1 \in 1..Len(s) /\ u[i] = s[i + 1]
  BY <1>1
<1>4. ASSUME NEW k \in 1..Len(u), NEW m \in 1..Len(u), k < m PROVE t[u[k]] < t[u[m]]
  <2>1. k + 1 < m + 1
    BY <1>1, <1>4
  <2>2. QED
    BY <1>3, <2>1 DEF Increasing
<1>5. \A i \in 2..Len(s) : 1 \in 1..Len(s) /\ i \in 1..Len(s) /\ 1 < i
  BY <1>1
<1>6. Below(t, {Head(s)}, Elements(u))
  BY <1>1, <1>2, <1>5 DEF Below, Increasing
<1>7. \A i \in 1..Len(s) : i = 1 \/ i \in 2..Len(s)
  BY <1>1
<1>8. 1 \in 1..Len(s)
  BY <1>1
<1>9. Elements(s) = Elements(u) \union {Head(s)}
  BY <1>1, <1>2, <1>5, <1>7, <1>8 DEF Elements
<1>10. QED
  BY <1>4, <1>6, <1>9 DEF u, Increasing

\* A load has a place for itself when it waits.
LEMMA KeptUnchanged ==
    ASSUME WaitingIsKept, UNCHANGED <<host, requests, answering>>,
           \A k \in Loads : load'[k] = "waiting" <=> load[k] = "waiting"
    PROVE  WaitingIsKept'
BY KeptFacts DEF Files

LEMMA OrderUnchanged ==
    ASSUME WaitingInOrder,
           UNCHANGED <<host, requests, loading_policy_files, answering, ticket, asked>>
    PROVE  WaitingInOrder'
BY OrderFacts DEF Ordered, Files

\* What a new file changes.
LEMMA NewFileWaiters ==
    ASSUME TypeOK, NEW h \in Hosts, NEW w \in Seq(Loads), NewFile(h, w)
    PROVE  /\ Files' = Files \union {Len(host) + 1}
           /\ Len(host) + 1 \notin Files
           /\ \A f \in Files : requests'[f] = requests[f]
           /\ requests'[Len(host) + 1] = w
           /\ answering' = answering
           /\ Len(loading_policy_files) \in Nat
           /\ Len(loading_policy_files') = Len(loading_policy_files) + 1
           /\ loading_policy_files'[1] = Len(host) + 1
           /\ \A i \in 2..Len(loading_policy_files) + 1 :
                 loading_policy_files'[i] = loading_policy_files[i - 1]
           /\ \A i \in 1..Len(loading_policy_files) : loading_policy_files[i] \in Files
<1>1. /\ Len(host) \in Nat /\ requests \in Seq(Seq(Loads)) /\ Len(requests) = Len(host)
      /\ loading_policy_files \in Seq(Files)
  BY DEF TypeOK
<1>2. /\ Len(host') = Len(host) + 1 /\ requests' = Append(requests, w)
      /\ loading_policy_files' = <<Len(host) + 1>> \o loading_policy_files
      /\ answering' = answering
  BY NewFileType DEF NewFile
<1>3. loading_policy_files \in Seq(Nat) /\ Len(host) + 1 \in Nat
  BY <1>1, SeqMonotonic DEF Files
<1>4. Files' = Files \union {Len(host) + 1} /\ Len(host) + 1 \notin Files
  <2>1. \A n \in Nat : 1..(n + 1) = (1..n) \union {n + 1} /\ n + 1 \notin 1..n
    OBVIOUS
  <2>2. QED
    BY <1>1, <1>2, <2>1 DEF Files
<1>5. (\A f \in Files : requests'[f] = requests[f]) /\ requests'[Len(host) + 1] = w
  BY <1>1, <1>2, AppendFacts DEF Files
<1>6. /\ Len(loading_policy_files) \in Nat
      /\ Len(loading_policy_files') = Len(loading_policy_files) + 1
      /\ loading_policy_files'[1] = Len(host) + 1
      /\ \A i \in 2..Len(loading_policy_files) + 1 :
            loading_policy_files'[i] = loading_policy_files[i - 1]
  BY <1>2, <1>3, PrependFacts
<1>7. \A i \in 1..Len(loading_policy_files) : loading_policy_files[i] \in Files
  BY <1>1, ElementOfSeq
<1>8. QED
  BY <1>2, <1>4, <1>5, <1>6, <1>7
LEMMA SameTickets ==
    ASSUME NEW t, NEW u
    PROVE  /\ \A s : Increasing(t, s) /\ (\A x \in Elements(s) : t[x] = u[x])
                        => Increasing(u, s)
           /\ \A A, B : Below(t, A, B) /\ (\A x \in A \union B : t[x] = u[x])
                        => Below(u, A, B)
BY DEF Increasing, Below, Elements

\* A new file with the loads w that wait at it at once.
LEMMA NewFileKeeps ==
    ASSUME TypeOK, WaitingIsKept, WaitingInOrder, NEW h \in Hosts,
           NEW w \in Seq(Loads), NewFile(h, w),
           \A l \in Loads : load'[l] = "waiting" <=> load[l] = "waiting" \/ l \in Elements(w),
           \A l \in Loads : load[l] = "waiting" => ticket'[l] = ticket[l],
           \A l \in Elements(w) : ticket'[l] = asked + 1,
           \A l \in Loads : ticket'[l] <= asked',
           Increasing(ticket', w)
    PROVE  WaitingIsKept' /\ WaitingInOrder'
<1> DEFINE new == Len(host) + 1
<1>0. /\ ticket \in [Loads -> Nat] /\ asked \in Nat
      /\ requests \in Seq(Seq(Loads)) /\ Len(requests) = Len(host)
      /\ answering \in Seq(Loads)
  BY DEF TypeOK
<1>2. /\ Files' = Files \union {new}
      /\ new \notin Files
      /\ \A f \in Files : requests'[f] = requests[f]
      /\ requests'[new] = w
      /\ answering' = answering
      /\ Len(loading_policy_files) \in Nat
      /\ Len(loading_policy_files') = Len(loading_policy_files) + 1
      /\ loading_policy_files'[1] = new
      /\ \A i \in 2..Len(loading_policy_files) + 1 :
            loading_policy_files'[i] = loading_policy_files[i - 1]
      /\ \A i \in 1..Len(loading_policy_files) : loading_policy_files[i] \in Files
  BY NewFileWaiters
<1> HIDE DEF new
<1>4. /\ \A l \in Loads : load[l] = "waiting" <=>
            (\E f \in Files : l \in Elements(requests[f])) \/ l \in Elements(answering)
      /\ Ordered
  BY KeptFacts, OrderFacts
<1>5. \A f \in Files : Elements(requests[f]) \subseteq Loads
  <2> SUFFICES ASSUME NEW f \in Files PROVE Elements(requests[f]) \subseteq Loads
    OBVIOUS
  <2>1. requests[f] \in Seq(Loads)
    BY <1>0, ElementOfSeq DEF Files
  <2>2. QED
    BY <2>1, ElementsFacts
<1>6. Elements(answering) \subseteq Loads
  BY <1>0, ElementsFacts
<1>7. WaitingIsKept'
  <2>1. \A l \in Loads : load'[l] = "waiting" <=>
           (\E f \in Files' : l \in Elements(requests'[f])) \/ l \in Elements(answering')
    <3> SUFFICES ASSUME NEW l \in Loads
                 PROVE  load'[l] = "waiting" <=>
                           \/ \E f \in Files' : l \in Elements(requests'[f])
                           \/ l \in Elements(answering')
      OBVIOUS
    <3>1. (\E f \in Files' : l \in Elements(requests'[f]))
             <=> (\E f \in Files : l \in Elements(requests[f])) \/ l \in Elements(w)
      BY <1>2
    <3>2. QED
      BY <1>2, <1>4, <3>1
  <2>2. QED
    BY <2>1, KeptFacts
<1>8. \A l \in Loads : load[l] = "waiting" =>
         /\ ticket'[l] = ticket[l] /\ ticket[l] \in Nat /\ ticket[l] <= asked
         /\ \A k \in Elements(w) : ticket'[l] < ticket'[k]
  BY <1>0, <1>4 DEF Ordered
<1>9. \A f \in Files : /\ Increasing(ticket', requests[f])
                       /\ Below(ticket', Elements(answering), Elements(requests[f]))
                       /\ Below(ticket', Elements(requests[f]), Elements(w))
  <2> SUFFICES ASSUME NEW f \in Files
               PROVE  /\ Increasing(ticket', requests[f])
                      /\ Below(ticket', Elements(answering), Elements(requests[f]))
                      /\ Below(ticket', Elements(requests[f]), Elements(w))
    OBVIOUS
  <2>1. \A l \in Elements(requests[f]) \union Elements(answering) :
           ticket[l] = ticket'[l] /\ \A k \in Elements(w) : ticket'[l] < ticket'[k]
    BY <1>4, <1>5, <1>6, <1>8
  <2>2. Increasing(ticket, requests[f]) /\ Below(ticket, Elements(answering), Elements(requests[f]))
    BY <1>4 DEF Ordered
  <2>3. Below(ticket', Elements(requests[f]), Elements(w))
    BY <2>1 DEF Below
  <2>4. QED
    BY <2>1, <2>2, <2>3, SameTickets
<1>10. Increasing(ticket', answering) /\ Below(ticket', Elements(answering), Elements(w))
  <2>1. \A l \in Elements(answering) :
           ticket[l] = ticket'[l] /\ \A k \in Elements(w) : ticket'[l] < ticket'[k]
    BY <1>4, <1>6, <1>8
  <2>2. Increasing(ticket, answering)
    BY <1>4 DEF Ordered
  <2>3. Below(ticket', Elements(answering), Elements(w))
    BY <2>1 DEF Below
  <2>4. QED
    BY <2>1, <2>2, <2>3, SameTickets
<1>11. ASSUME NEW i \in 1..Len(loading_policy_files'),
              NEW j \in 1..Len(loading_policy_files'), i < j
       PROVE  Below(ticket', Elements(requests'[loading_policy_files'[j]]),
                             Elements(requests'[loading_policy_files'[i]]))
  <2>1. i \in Nat /\ j \in Nat /\ j # 1
    BY <1>2, <1>11
  <2>2. /\ j - 1 \in 1..Len(loading_policy_files)
        /\ loading_policy_files'[j] = loading_policy_files[j - 1]
        /\ loading_policy_files[j - 1] \in Files
        /\ requests'[loading_policy_files'[j]] = requests[loading_policy_files[j - 1]]
    BY <1>2, <2>1
  <2>3. CASE i = 1
    <3>1. requests'[loading_policy_files'[i]] = w
      BY <1>2, <2>3
    <3>2. QED
      BY <1>9, <2>2, <3>1
  <2>4. CASE i # 1
    <3>1. /\ i - 1 \in 1..Len(loading_policy_files) /\ i - 1 < j - 1
          /\ loading_policy_files[i - 1] \in Files
          /\ requests'[loading_policy_files'[i]] = requests[loading_policy_files[i - 1]]
      BY <1>2, <1>11, <2>1, <2>4
    <3> DEFINE old == loading_policy_files[j - 1]
               young == loading_policy_files[i - 1]
    <3>2. Below(ticket, Elements(requests[old]), Elements(requests[young]))
      BY <1>4, <2>2, <3>1 DEF Ordered
    <3>3. old \in Files /\ young \in Files
      BY <2>2, <3>1
    <3> HIDE DEF old, young
    <3>4. \A l \in Elements(requests[old]) \union Elements(requests[young]) :
             ticket[l] = ticket'[l]
      BY <1>4, <1>5, <1>8, <3>3
    <3>5. Below(ticket', Elements(requests[old]), Elements(requests[young]))
      BY <3>2, <3>4, SameTickets
    <3>6. QED
      BY <2>2, <3>1, <3>5 DEF old, young
  <2>5. QED
    BY <2>3, <2>4
<1>12. Ordered'
  <2>1. \A f \in Files' : Increasing(ticket', requests'[f])
    BY <1>2, <1>9
  <2>2. \A f \in Files' : Below(ticket', Elements(answering'), Elements(requests'[f]))
    BY <1>2, <1>9, <1>10
  <2>3. Increasing(ticket', answering')
    BY <1>2, <1>10
  <2>4. QED
    BY <1>11, <2>1, <2>2, <2>3 DEF Ordered
<1>13. QED
  BY <1>7, <1>12, OrderFacts
\* What the end of the file at position p changes.
LEMMA FinishedFacts ==
    ASSUME TypeOK, NEW p \in 1..Len(loading_policy_files), NEW allow,
           FinishedLoading(p, allow)
    PROVE  /\ answering = <<>> /\ run = <<>> /\ Len(loading_policy_files) \in Nat
           /\ UNCHANGED <<load, url, ticket, asked, host, run>>
           /\ loading_policy_files[p] \in Files
           /\ \A i \in 1..Len(loading_policy_files) : loading_policy_files[i] \in Files
           /\ \A f \in Files : requests[f] \in Seq(Loads)
           /\ Len(loading_policy_files') = Len(loading_policy_files) - 1
           /\ \A i \in 1..Len(loading_policy_files) - 1 :
                 loading_policy_files'[i] = IF i < p THEN loading_policy_files[i]
                                            ELSE loading_policy_files[i + 1]
           /\ p < Len(loading_policy_files) =>
                 /\ answering' = answering
                 /\ \A g \in Files :
                       requests'[g] = IF g = loading_policy_files[p] THEN <<>>
                                      ELSE IF g = loading_policy_files[p + 1]
                                      THEN requests[g] \o requests[loading_policy_files[p]]
                                      ELSE requests[g]
           /\ ~(p < Len(loading_policy_files)) =>
                 /\ answering' = requests[loading_policy_files[p]]
                 /\ \A g \in Files :
                       requests'[g] = IF g = loading_policy_files[p] THEN <<>>
                                      ELSE requests[g]
<1>1. /\ Idle /\ MoveOn(loading_policy_files[p], p)
      /\ loading_policy_files' = Without(loading_policy_files, p)
      /\ UNCHANGED <<load, url, ticket, asked, host, run>>
  BY DEF FinishedLoading, history
<1>2. loading_policy_files \in Seq(Files) /\ requests \in Seq(Seq(Loads))
      /\ Len(requests) = Len(host)
  BY DEF TypeOK
<1>3. \A f \in Files : requests[f] \in Seq(Loads)
  BY <1>2, ElementOfSeq DEF Files
<1>4. \A i \in 1..Len(loading_policy_files) : loading_policy_files[i] \in Files
  BY <1>2, ElementOfSeq
<1>5. /\ Len(loading_policy_files) \in Nat
      /\ Len(loading_policy_files') = Len(loading_policy_files) - 1
      /\ \A i \in 1..Len(loading_policy_files) - 1 :
            loading_policy_files'[i] = IF i < p THEN loading_policy_files[i]
                                       ELSE loading_policy_files[i + 1]
  BY <1>1, <1>2, WithoutFacts
<1>6. answering = <<>> /\ run = <<>>
  BY <1>1 DEF Idle
<1>7. /\ p < Len(loading_policy_files) =>
            /\ answering' = answering
            /\ \A g \in Files :
                  requests'[g] = IF g = loading_policy_files[p] THEN <<>>
                                 ELSE IF g = loading_policy_files[p + 1]
                                 THEN requests[g] \o requests[loading_policy_files[p]]
                                 ELSE requests[g]
      /\ ~(p < Len(loading_policy_files)) =>
            /\ answering' = requests[loading_policy_files[p]]
            /\ \A g \in Files :
                  requests'[g] = IF g = loading_policy_files[p] THEN <<>>
                                 ELSE requests[g]
  BY <1>1, <1>2, <1>4, MoveOnFacts, SMTT(60)
<1>8. QED
  BY <1>1, <1>3, <1>4, <1>5, <1>6, <1>7

LEMMA FinishedKeeps ==
    ASSUME TypeOK, FilesLoadOnce, WaitingIsKept, WaitingInOrder,
           NEW p \in 1..Len(loading_policy_files), NEW allow, FinishedLoading(p, allow)
    PROVE  WaitingIsKept' /\ WaitingInOrder'
<1> DEFINE n == Len(loading_policy_files)
           at(i) == loading_policy_files[i]
           f == at(p)
           at2(i) == loading_policy_files'[i]
           from(i) == IF i < p THEN i ELSE i + 1
<1>1. /\ answering = <<>> /\ n \in Nat
      /\ UNCHANGED <<load, ticket, asked>>
      /\ f \in Files /\ Files' = Files
      /\ \A i \in 1..n : at(i) \in Files
      /\ \A g \in Files : requests[g] \in Seq(Loads)
      /\ Len(loading_policy_files') = n - 1
      /\ \A i \in 1..n - 1 : at2(i) = at(from(i))
  BY FinishedFacts DEF Files
<1>2. p < n => /\ answering' = <<>>
               /\ \A g \in Files :
                     requests'[g] = IF g = f THEN <<>>
                                    ELSE IF g = at(p + 1) THEN requests[g] \o requests[f]
                                    ELSE requests[g]
  BY FinishedFacts
<1>3. ~(p < n) => /\ answering' = requests[f]
                  /\ \A g \in Files :
                        requests'[g] = IF g = f THEN <<>> ELSE requests[g]
  BY FinishedFacts
<1>4. /\ \A l \in Loads : load[l] = "waiting" <=>
            (\E g \in Files : l \in Elements(requests[g])) \/ l \in Elements(answering)
      /\ Ordered
  BY KeptFacts, OrderFacts
<1>5. \A i, j \in 1..n : i # j => at(i) # at(j)
  BY DEF FilesLoadOnce
<1>6. \A g \in Files : (\A i \in 1..n : at(i) # g) => requests[g] = <<>>
  BY DEF FilesLoadOnce, Loading
<1>7. p \in 1..n
  OBVIOUS
<1> HIDE DEF n, at, f, at2
<1>8. Elements(answering) = {}
  BY <1>1, ElementsFacts
<1>9. /\ \A g \in Files : Increasing(ticket, requests[g])
      /\ \A i, j \in 1..n : i < j =>
            Below(ticket, Elements(requests[at(j)]), Elements(requests[at(i)]))
      /\ \A l \in Loads : ticket[l] <= asked
  BY <1>4 DEF Ordered, n, at
<1>10. \A i \in 1..n - 1 : from(i) \in 1..n /\ from(i) # p
  BY <1>1, <1>7
<1>11. \A i, j \in 1..n - 1 : i < j => from(i) < from(j)
  BY <1>1, <1>7
<1>12. CASE p < n
  <2> DEFINE next == at(p + 1)
  <2>1. p + 1 \in 1..n /\ next \in Files /\ next # f
    BY <1>1, <1>5, <1>7, <1>12 DEF f
  <2>2. /\ answering' = <<>>
        /\ \A g \in Files : g # f /\ g # next => requests'[g] = requests[g]
        /\ requests'[next] = requests[next] \o requests[f]
        /\ requests'[f] = <<>>
    BY <1>1, <1>2, <1>12, <2>1
  <2> HIDE DEF next
  <2>3. /\ Elements(requests'[next]) = Elements(requests[next]) \union Elements(requests[f])
        /\ Elements(requests'[f]) = {}
        /\ Elements(answering') = {}
    BY <1>1, <2>1, <2>2, ElementsFacts
  <2>4. WaitingIsKept'
    <3>1. \A l \in Loads : load'[l] = "waiting" <=>
             (\E g \in Files' : l \in Elements(requests'[g])) \/ l \in Elements(answering')
      <4> SUFFICES ASSUME NEW l \in Loads
                   PROVE  (\E g \in Files : l \in Elements(requests'[g]))
                             <=> (\E g \in Files : l \in Elements(requests[g]))
        BY <1>1, <1>4, <1>8, <2>3
      <4>1. ASSUME NEW g \in Files, l \in Elements(requests'[g])
            PROVE  \E k \in Files : l \in Elements(requests[k])
        BY <1>1, <2>1, <2>2, <2>3, <4>1
      <4>2. ASSUME NEW g \in Files, l \in Elements(requests[g])
            PROVE  \E k \in Files : l \in Elements(requests'[k])
        BY <1>1, <2>1, <2>2, <2>3, <4>2
      <4>3. QED
        BY <4>1, <4>2
    <3>2. QED
      BY <3>1, KeptFacts
  <2>5. \A g \in Files : Increasing(ticket, requests'[g])
    <3>1. Below(ticket, Elements(requests[next]), Elements(requests[f]))
      BY <1>1, <1>7, <1>9, <1>12, <2>1 DEF next, f
    <3>2. Increasing(ticket, requests'[next])
      BY <1>1, <1>9, <2>1, <2>2, <3>1, IncreasingConcat
    <3>3. Increasing(ticket, requests'[f])
      BY <2>2 DEF Increasing
    <3>4. QED
      BY <1>9, <2>2, <3>2, <3>3
  <2>6. ASSUME NEW i \in 1..n - 1, NEW j \in 1..n - 1, i < j
        PROVE  Below(ticket, Elements(requests'[at(from(j))]), Elements(requests'[at(from(i))]))
    <3>1. /\ from(i) \in 1..n /\ from(i) # p /\ from(j) \in 1..n /\ from(j) # p
          /\ from(i) < from(j)
      BY <1>10, <1>11, <2>6
    <3>2. from(i) = p + 1 => p < from(j)
      BY <1>1, <1>7, <3>1
    <3>3. from(j) = p + 1 => from(i) < p
      BY <1>1, <1>7, <3>1
    <3> DEFINE a == from(j)
               b == from(i)
    <3> HIDE DEF from
    <3>4. /\ at(a) \in Files /\ at(b) \in Files /\ at(a) # f /\ at(b) # f
          /\ at(a) = next => a = p + 1
          /\ at(b) = next => b = p + 1
      BY <1>1, <1>5, <1>7, <2>1, <3>1 DEF f, next
    <3>5. Below(ticket, Elements(requests[at(a)]), Elements(requests[at(b)]))
      BY <1>9, <3>1
    <3>6. CASE at(a) = next
      <4>1. b < p /\ at(b) # next
        BY <1>5, <2>1, <3>1, <3>3, <3>4, <3>6 DEF next
      <4>2. Below(ticket, Elements(requests[f]), Elements(requests[at(b)]))
        BY <1>7, <1>9, <3>1, <4>1 DEF f
      <4>3. QED
        BY <2>2, <2>3, <3>4, <3>5, <3>6, <4>1, <4>2 DEF Below
    <3>7. CASE at(b) = next
      <4>1. p < a /\ at(a) # next
        BY <1>5, <2>1, <3>1, <3>2, <3>4, <3>7 DEF next
      <4>2. Below(ticket, Elements(requests[at(a)]), Elements(requests[f]))
        BY <1>7, <1>9, <3>1, <4>1 DEF f
      <4>3. QED
        BY <2>2, <2>3, <3>4, <3>5, <3>7, <4>1, <4>2 DEF Below
    <3>8. CASE at(a) # next /\ at(b) # next
      BY <2>2, <3>4, <3>5, <3>8
    <3>9. QED
      BY <3>6, <3>7, <3>8
  <2>7. Ordered'
    <3>1. \A i, j \in 1..Len(loading_policy_files') : i < j =>
             Below(ticket', Elements(requests'[loading_policy_files'[j]]),
                            Elements(requests'[loading_policy_files'[i]]))
      BY <1>1, <2>6 DEF at2
    <3>2. Increasing(ticket', answering')
      BY <2>2 DEF Increasing
    <3>3. \A g \in Files' : Below(ticket', Elements(answering'), Elements(requests'[g]))
      BY <2>3 DEF Below
    <3>4. \A g \in Files' : Increasing(ticket', requests'[g])
      BY <1>1, <2>5
    <3>5. \A l \in Loads : ticket'[l] <= asked'
      BY <1>1, <1>9
    <3>6. QED
      BY <3>1, <3>2, <3>3, <3>4, <3>5 DEF Ordered
  <2>8. QED
    BY <2>4, <2>7, OrderFacts
<1>13. CASE ~(p < n)
  <2>1. p = n
    BY <1>1, <1>7, <1>13
  <2>2. /\ answering' = requests[f]
        /\ \A g \in Files : g # f => requests'[g] = requests[g]
        /\ requests'[f] = <<>>
    BY <1>1, <1>3, <1>13
  <2>3. Elements(requests'[f]) = {}
    BY <2>2, ElementsFacts
  <2>4. WaitingIsKept'
    <3>1. \A l \in Loads : load'[l] = "waiting" <=>
             (\E g \in Files' : l \in Elements(requests'[g])) \/ l \in Elements(answering')
      BY <1>1, <1>4, <1>8, <2>2, <2>3
    <3>2. QED
      BY <3>1, KeptFacts
  <2>5. \A g \in Files : g # f =>
           Below(ticket, Elements(requests[f]), Elements(requests[g]))
    <3> SUFFICES ASSUME NEW g \in Files, g # f
                 PROVE  Below(ticket, Elements(requests[f]), Elements(requests[g]))
      OBVIOUS
    <3>1. CASE \E i \in 1..n : at(i) = g
      <4>1. PICK i \in 1..n : at(i) = g
        BY <3>1
      <4>2. i < p
        BY <1>1, <2>1, <4>1 DEF f
      <4>3. QED
        BY <1>7, <1>9, <4>1, <4>2 DEF f
    <3>2. CASE \A i \in 1..n : at(i) # g
      BY <1>6, <3>2, ElementsFacts DEF Below
    <3>3. QED
      BY <3>1, <3>2
  <2>6. Ordered'
    <3>1. ASSUME NEW i \in 1..n - 1, NEW j \in 1..n - 1, i < j
          PROVE  Below(ticket, Elements(requests'[at(from(j))]), Elements(requests'[at(from(i))]))
      <4>1. /\ from(i) \in 1..n /\ from(i) # p /\ from(j) \in 1..n /\ from(j) # p
            /\ from(i) < from(j)
        BY <1>10, <1>11, <3>1
      <4> HIDE DEF from
      <4>2. /\ at(from(i)) \in Files /\ at(from(i)) # f
            /\ at(from(j)) \in Files /\ at(from(j)) # f
        BY <1>1, <1>5, <1>7, <4>1 DEF f
      <4>3. QED
        BY <1>9, <2>2, <4>1, <4>2
    <3>2. \A i, j \in 1..Len(loading_policy_files') : i < j =>
             Below(ticket', Elements(requests'[loading_policy_files'[j]]),
                            Elements(requests'[loading_policy_files'[i]]))
      BY <1>1, <3>1 DEF at2
    <3>3. Increasing(ticket', answering')
      BY <1>1, <1>9, <2>2
    <3>4. Increasing(ticket, requests'[f])
      BY <2>2 DEF Increasing
    <3>5. \A g \in Files' : Increasing(ticket', requests'[g])
      BY <1>1, <1>9, <2>2, <3>4
    <3>6. \A g \in Files' : Below(ticket', Elements(answering'), Elements(requests'[g]))
      <4>1. Below(ticket, Elements(requests[f]), {})
        BY DEF Below
      <4>2. QED
        BY <1>1, <2>2, <2>3, <2>5, <4>1
    <3>7. \A l \in Loads : ticket'[l] <= asked'
      BY <1>1, <1>9
    <3>8. QED
      BY <3>2, <3>3, <3>5, <3>6, <3>7 DEF Ordered
  <2>7. QED
    BY <2>4, <2>6, OrderFacts
<1>14. QED
  BY <1>12, <1>13
LEMMA AnswerKeeps ==
    ASSUME TypeOK, WaitingIsKept, WaitingInOrder, AnswerRequest
    PROVE  WaitingIsKept' /\ WaitingInOrder'
<1> DEFINE first == Head(answering)
<1>1. /\ load \in [Loads -> {"none", "requested", "waiting", "denied", "loading", "ended"}]
      /\ ticket \in [Loads -> Nat] /\ answering \in Seq(Loads)
  BY DEF TypeOK
<1>2. /\ answering # <<>> /\ answering' = Tail(answering)
      /\ Answered(first, Allowed(url[first]))
      /\ UNCHANGED <<host, requests, loading_policy_files, ticket, asked>>
  BY DEF AnswerRequest, history
<1>3. first \in Loads /\ load[first] = "waiting"
  BY <1>2, HeadWaits
<1> HIDE DEF first
<1>4. /\ \A l \in Loads : load[l] = "waiting" <=>
            (\E g \in Files : l \in Elements(requests[g])) \/ l \in Elements(answering)
      /\ Ordered
  BY KeptFacts, OrderFacts
<1>5. /\ Increasing(ticket, answering)
      /\ \A g \in Files : Below(ticket, Elements(answering), Elements(requests[g]))
  BY <1>4 DEF Ordered
<1>6. /\ Increasing(ticket, answering')
      /\ Below(ticket, {first}, Elements(answering'))
      /\ Elements(answering) = Elements(answering') \union {first}
  BY <1>1, <1>2, <1>5, IncreasingTail DEF first
<1>7. first \notin Elements(answering')
  BY <1>1, <1>3, <1>6 DEF Below
<1>8. \A g \in Files : first \notin Elements(requests[g])
  BY <1>1, <1>3, <1>5, <1>6 DEF Below
<1>9. \A l \in Loads : load'[l] = "waiting" <=> load[l] = "waiting" /\ l # first
  BY <1>1, <1>2, <1>3 DEF Answered
<1>10. Files' = Files
  BY <1>2 DEF Files
<1>11. \A l \in Loads : load'[l] = "waiting" <=>
           (\E g \in Files' : l \in Elements(requests'[g])) \/ l \in Elements(answering')
  BY <1>2, <1>4, <1>6, <1>7, <1>8, <1>9, <1>10
<1>12. \A g \in Files' : Below(ticket', Elements(answering'), Elements(requests'[g]))
  BY <1>2, <1>5, <1>6, <1>10 DEF Below
<1>13. Ordered'
  BY <1>2, <1>4, <1>6, <1>10, <1>12 DEF Ordered
<1>14. QED
  BY <1>11, <1>13, KeptFacts, OrderFacts

\* What executing a load or a policy request does to those that wait.
LEMMA RunKeeps ==
    ASSUME TypeOK, RequestedOnce, WaitingIsKept, WaitingInOrder, RunRequest
    PROVE  WaitingIsKept' /\ WaitingInOrder'
<1>1. /\ run \in Seq(Request) /\ run # <<>>
      /\ load \in [Loads -> {"none", "requested", "waiting", "denied", "loading", "ended"}]
      /\ url \in [Loads -> Hosts] /\ ticket \in [Loads -> Nat] /\ asked \in Nat
  BY DEF RunRequest, TypeOK
<1>2. /\ Head(run) = run[1] /\ run[1] \in Request /\ 1 \in 1..Len(run)
  BY <1>1, TailFacts
<1>3. ASSUME NEW h \in Hosts, RunPolicy(h) PROVE WaitingIsKept' /\ WaitingInOrder'
  <2>1. NewFile(h, <<>>) /\ UNCHANGED <<load, asked, ticket>>
    BY <1>3 DEF RunPolicy, history
  <2>2. <<>> \in Seq(Loads) /\ Elements(<<>>) = {} /\ Increasing(ticket', <<>>)
    BY ElementsFacts DEF Increasing
  <2>3. \A l \in Loads : ticket'[l] <= asked'
    BY <2>1 DEF WaitingInOrder
  <2>4. QED
    BY <2>1, <2>2, <2>3, NewFileKeeps
<1>4. ASSUME NEW l \in Loads, run[1] = Load(l), RunLoad(l)
      PROVE  WaitingIsKept' /\ WaitingInOrder'
  <2>1. load[l] = "requested"
    BY <1>2, <1>4 DEF RequestedOnce, Executes
  <2>2. ASSUME NEW allow \in BOOLEAN, Answered(l, allow), UNCHANGED <<files, history>>
        PROVE  WaitingIsKept' /\ WaitingInOrder'
    <3>1. UNCHANGED <<host, requests, loading_policy_files, answering, ticket, asked>>
      BY <2>2 DEF files, history
    <3>2. \A k \in Loads : load'[k] = "waiting" <=> load[k] = "waiting"
      BY <1>1, <2>1, <2>2 DEF Answered
    <3>3. QED
      BY <3>1, <3>2, KeptUnchanged, OrderUnchanged
  <2>3. CASE /\ load' = [load EXCEPT ![l] = "waiting"]
             /\ NewFile(url[l], <<l>>)
             /\ asked' = asked + 1
             /\ ticket' = [ticket EXCEPT ![l] = asked + 1]
    <3>1. url[l] \in Hosts /\ <<l>> \in Seq(Loads) /\ Elements(<<l>>) = {l}
      <4>1. Elements(<<l>>) = {l}
        BY ElementsFacts
      <4>2. QED
        BY <1>1, <4>1
    <3>2. \A k \in Loads : load'[k] = "waiting" <=> load[k] = "waiting" \/ k \in Elements(<<l>>)
      BY <1>1, <2>3, <3>1
    <3>3. \A k \in Loads : load[k] = "waiting" => ticket'[k] = ticket[k]
      BY <1>1, <2>1, <2>3
    <3>4. \A k \in Elements(<<l>>) : ticket'[k] = asked + 1
      BY <1>1, <2>3, <3>1
    <3>5. \A k \in Loads : ticket[k] <= asked
      BY DEF WaitingInOrder
    <3>6. \A k \in Loads : ticket'[k] <= asked'
      BY <1>1, <2>3, <3>5
    <3>7. Increasing(ticket', <<l>>)
      BY DEF Increasing
    <3>8. QED
      BY <2>3, <3>1, <3>2, <3>3, <3>4, <3>6, <3>7, NewFileKeeps
  <2>4. QED
    BY <1>4, <2>2, <2>3 DEF RunLoad
<1>5. \/ Head(run).kind = "policy" /\ RunPolicy(Head(run).host)
      \/ Head(run).kind = "load" /\ RunLoad(Head(run).load)
  BY DEF RunRequest
<1>6. QED
  BY <1>2, <1>3, <1>4, <1>5, RequestFacts

LEMMA KeepsStep ==
    /\ TypeOK /\ FilesLoadOnce /\ RequestedOnce /\ WaitingIsKept /\ WaitingInOrder
    /\ [Next]_vars
    => WaitingIsKept' /\ WaitingInOrder'
<1> SUFFICES ASSUME TypeOK, FilesLoadOnce, RequestedOnce, WaitingIsKept, WaitingInOrder,
                    [Next]_vars
             PROVE  WaitingIsKept' /\ WaitingInOrder'
  OBVIOUS
<1>0. load \in [Loads -> {"none", "requested", "waiting", "denied", "loading", "ended"}]
  BY DEF TypeOK
<1>1. ASSUME UNCHANGED <<files, history>>,
             \A k \in Loads : load'[k] = "waiting" <=> load[k] = "waiting"
      PROVE  WaitingIsKept' /\ WaitingInOrder'
  BY <1>1, KeptUnchanged, OrderUnchanged DEF files, history
<1>2. ASSUME NEW l \in Loads, Create(l) PROVE WaitingIsKept' /\ WaitingInOrder'
  <2>1. \A k \in Loads : load'[k] = "waiting" <=> load[k] = "waiting"
    BY <1>0, <1>2 DEF Create
  <2>2. QED
    BY <1>1, <1>2, <2>1 DEF Create
<1>3. ASSUME NEW l \in Loads, LoadEnds(l) PROVE WaitingIsKept' /\ WaitingInOrder'
  <2>1. \A k \in Loads : load'[k] = "waiting" <=> load[k] = "waiting"
    BY <1>0, <1>3 DEF LoadEnds
  <2>2. QED
    BY <1>1, <1>3, <2>1 DEF LoadEnds
<1>4. ASSUME NEW h \in Hosts, LoadPolicyFile(h) PROVE WaitingIsKept' /\ WaitingInOrder'
  BY <1>1, <1>4 DEF LoadPolicyFile
<1>5. CASE EndFrame
  BY <1>1, <1>5 DEF EndFrame
<1>6. CASE UNCHANGED vars
  BY <1>1, <1>6 DEF vars
<1>7. QED
  BY <1>2, <1>3, <1>4, <1>5, <1>6, RunKeeps, FinishedKeeps, AnswerKeeps DEF Next

LEMMA LoopStep == OneLoop /\ [Next]_vars => OneLoop'
BY DEF OneLoop, Next, vars, files, Create, LoadEnds, LoadPolicyFile, EndFrame, Idle,
       RunRequest, RunPolicy, RunLoad, NewFile, FinishedLoading, AnswerRequest

LEMMA InitIInv == Init => IInv
<1> SUFFICES ASSUME Init PROVE IInv
  OBVIOUS
<1>1. TypeOK
  BY BoundsAssumption DEF Init, TypeOK, Files
<1>2. FilesLoadOnce /\ RequestedOnce /\ WaitingIsKept /\ WaitingInOrder /\ OneLoop
  BY DEF Init, FilesLoadOnce, RequestedOnce, WaitingIsKept, WaitingInOrder, OneLoop,
         Files, Loading
<1>3. QED
  BY <1>1, <1>2 DEF IInv

\* Whatever scripts load and in whatever order policy files end, every load
\* that waits is kept in exactly one place and in the order of asking.
THEOREM Invariance == Spec => []IInv
<1>1. IInv /\ [Next]_vars => IInv'
  BY TypeStep, FilesStep, RequestedStep, KeepsStep, LoopStep DEF IInv
<1>2. QED
  BY InitIInv, <1>1, PTL DEF Spec
(***************************************************************************)
(* The requirement                                                         *)
(***************************************************************************)
\* The files s from the first one on at which l waits, given the requests r.
NeedsIn(s, r, l) ==
    {s[j] : j \in {j \in 1..Len(s) : \E i \in 1..j : l \in Elements(r[s[i]])}}

LEMMA NeedsFacts ==
    /\ \A l : Needs(l) = NeedsIn(loading_policy_files, requests, l)
    /\ \A l : Needs(l)' = NeedsIn(loading_policy_files', requests', l)
BY DEF Needs, WaitsAt, Elements, NeedsIn

LEMMA NeedsMember ==
    ASSUME NEW s, NEW r, NEW l, NEW x, Len(s) \in Nat
    PROVE  x \in NeedsIn(s, r, l) <=>
              \E i, j \in 1..Len(s) : i <= j /\ x = s[j] /\ l \in Elements(r[s[i]])
<1>1. ASSUME x \in NeedsIn(s, r, l)
      PROVE  \E i, j \in 1..Len(s) : i <= j /\ x = s[j] /\ l \in Elements(r[s[i]])
  <2>1. PICK j \in 1..Len(s) : x = s[j] /\ \E i \in 1..j : l \in Elements(r[s[i]])
    BY <1>1 DEF NeedsIn
  <2>2. PICK i \in 1..j : l \in Elements(r[s[i]])
    BY <2>1
  <2>3. i \in 1..Len(s) /\ i <= j
    OBVIOUS
  <2>4. QED
    BY <2>1, <2>2, <2>3
<1>2. ASSUME NEW i \in 1..Len(s), NEW j \in 1..Len(s), i <= j, x = s[j],
             l \in Elements(r[s[i]])
      PROVE  x \in NeedsIn(s, r, l)
  <2>1. i \in 1..j
    BY <1>2
  <2>2. QED
    BY <1>2, <2>1 DEF NeedsIn
<1>3. QED
  BY <1>1, <1>2

\* A new file in front, at which only w waits.
LEMMA PrependNeeds ==
    ASSUME NEW s, NEW u, NEW r, NEW q, NEW l, Len(s) \in Nat, Len(u) = Len(s) + 1,
           \A i \in 2..Len(s) + 1 : u[i] = s[i - 1],
           \A i \in 1..Len(s) : q[s[i]] = r[s[i]]
    PROVE  /\ l \in Elements(q[u[1]]) => NeedsIn(u, q, l) = Elements(u)
           /\ l \notin Elements(q[u[1]]) => NeedsIn(u, q, l) = NeedsIn(s, r, l)
<1>0. Len(u) \in Nat
  OBVIOUS
<1>1. ASSUME l \in Elements(q[u[1]]) PROVE NeedsIn(u, q, l) = Elements(u)
  <2>1. NeedsIn(u, q, l) \subseteq Elements(u)
    BY DEF NeedsIn, Elements
  <2>2. ASSUME NEW j \in 1..Len(u) PROVE u[j] \in NeedsIn(u, q, l)
    <3>1. 1 \in 1..Len(u) /\ 1 <= j
      BY <1>0
    <3>2. QED
      BY <1>0, <1>1, <3>1, NeedsMember
  <2>3. QED
    BY <2>1, <2>2 DEF Elements
<1>2. ASSUME l \notin Elements(q[u[1]]) PROVE NeedsIn(u, q, l) = NeedsIn(s, r, l)
  <2>1. ASSUME NEW x \in NeedsIn(u, q, l) PROVE x \in NeedsIn(s, r, l)
    <3>1. PICK i \in 1..Len(u), j \in 1..Len(u) :
             i <= j /\ x = u[j] /\ l \in Elements(q[u[i]])
      BY <1>0, NeedsMember
    <3>2. /\ i - 1 \in 1..Len(s) /\ j - 1 \in 1..Len(s) /\ i - 1 <= j - 1
          /\ u[i] = s[i - 1] /\ u[j] = s[j - 1]
      BY <1>2, <3>1
    <3>3. QED
      BY <3>1, <3>2, NeedsMember
  <2>2. ASSUME NEW x \in NeedsIn(s, r, l) PROVE x \in NeedsIn(u, q, l)
    <3>1. PICK i \in 1..Len(s), j \in 1..Len(s) :
             i <= j /\ x = s[j] /\ l \in Elements(r[s[i]])
      BY NeedsMember
    <3>2. \A k \in 1..Len(s) : k + 1 \in 2..Len(s) + 1 /\ (k + 1) - 1 = k
      OBVIOUS
    <3>3. \A k \in 1..Len(s) : k + 1 \in 1..Len(u) /\ u[k + 1] = s[k]
      <4> SUFFICES ASSUME NEW k \in 1..Len(s)
                   PROVE  k + 1 \in 1..Len(u) /\ u[k + 1] = s[k]
        OBVIOUS
      <4>1. k + 1 \in 1..Len(u)
        BY SMT
      <4>2. k + 1 \in 2..Len(s) + 1 /\ (k + 1) - 1 = k
        BY <3>2
      <4>3. u[k + 1] = s[(k + 1) - 1]
        BY <4>2, Zenon
      <4>4. QED
        BY <4>1, <4>2, <4>3
    <3>4. i + 1 \in 1..Len(u) /\ j + 1 \in 1..Len(u) /\ i + 1 <= j + 1
      BY <3>1, <3>3
    <3>5. x = u[j + 1] /\ l \in Elements(q[u[i + 1]])
      BY <3>1, <3>3
    <3>6. QED
      BY <1>0, <3>4, <3>5, NeedsMember
  <2>3. QED
    BY <2>1, <2>2
<1>3. QED
  BY <1>1, <1>2

\* The file at position p of s has gone, u is left, and the requests r that
\* waited there have moved on, which gives q.
Moved(s, u, r, q, p) ==
    /\ Len(s) \in Nat
    /\ Len(u) = Len(s) - 1
    /\ p \in 1..Len(s)
    /\ Distinct(s)
    /\ \A i \in 1..Len(s) - 1 : u[i] = IF i < p THEN s[i] ELSE s[i + 1]
    /\ \A i \in 1..Len(s) : i # p =>
          Elements(q[s[i]]) = IF i = p + 1
                              THEN Elements(r[s[i]]) \union Elements(r[s[p]])
                              ELSE Elements(r[s[i]])

LEMMA MoveNeeds ==
    ASSUME NEW s, NEW u, NEW r, NEW q, NEW p, NEW l, Moved(s, u, r, q, p)
    PROVE  NeedsIn(u, q, l) = NeedsIn(s, r, l) \ {s[p]}
<1> USE DEF Moved
<1>0. Len(u) \in Nat
  OBVIOUS
<1>1. ASSUME NEW x \in NeedsIn(u, q, l) PROVE x \in NeedsIn(s, r, l) /\ x # s[p]
  <2>1. PICK i \in 1..Len(u), j \in 1..Len(u) :
           i <= j /\ x = u[j] /\ l \in Elements(q[u[i]])
    BY <1>0, NeedsMember
  <2>2. PICK k \in 1..Len(s) : /\ k = IF i < p THEN i ELSE i + 1
                               /\ u[i] = s[k] /\ k # p
    OBVIOUS
  <2>3. PICK m \in 1..Len(s) : /\ m = IF j < p THEN j ELSE j + 1
                               /\ u[j] = s[m] /\ m # p
    OBVIOUS
  <2>4. k <= m /\ (k = p + 1 => p <= m)
    BY <2>1, <2>2, <2>3
  <2>5. l \in Elements(r[s[k]]) \/ (k = p + 1 /\ l \in Elements(r[s[p]]))
    BY <2>1, <2>2
  <2>6. x \in NeedsIn(s, r, l)
    BY <2>1, <2>3, <2>4, <2>5, NeedsMember
  <2>7. QED
    BY <2>1, <2>3, <2>6 DEF Distinct
<1>2. ASSUME NEW k \in 1..Len(s), k # p
      PROVE  \E a \in 1..Len(u) : (a = IF k < p THEN k ELSE k - 1) /\ u[a] = s[k]
  <2>1. CASE k < p
    <3>1. k \in 1..Len(u) /\ u[k] = s[k]
      BY <2>1
    <3>2. QED
      BY <2>1, <3>1
  <2>2. CASE k > p
    <3>1. k - 1 \in 1..Len(s) - 1 /\ ~(k - 1 < p) /\ (k - 1) + 1 = k
      BY <2>2
    <3>2. k - 1 \in 1..Len(u) /\ u[k - 1] = s[k]
      BY <3>1
    <3>3. QED
      BY <2>2, <3>2
  <2>3. QED
    BY <1>2, <2>1, <2>2
<1>3. ASSUME NEW x \in NeedsIn(s, r, l), x # s[p] PROVE x \in NeedsIn(u, q, l)
  <2>1. PICK i \in 1..Len(s), j \in 1..Len(s) :
           i <= j /\ x = s[j] /\ l \in Elements(r[s[i]])
    BY NeedsMember
  <2>2. j # p
    BY <1>3, <2>1
  <2>3. PICK k \in 1..Len(s) : k # p /\ k <= j /\ l \in Elements(q[s[k]])
    <3>1. CASE i # p
      BY <2>1, <3>1
    <3>2. CASE i = p
      <4>1. p + 1 \in 1..Len(s) /\ p + 1 <= j /\ p + 1 # p
        BY <2>1, <2>2, <3>2
      <4>2. l \in Elements(q[s[p + 1]])
        BY <2>1, <3>2, <4>1
      <4>3. QED
        BY <4>1, <4>2
    <3>3. QED
      BY <3>1, <3>2
  <2>4. PICK a \in 1..Len(u) : /\ a = IF k < p THEN k ELSE k - 1
                               /\ u[a] = s[k]
    BY <1>2, <2>3
  <2>5. PICK b \in 1..Len(u) : /\ b = IF j < p THEN j ELSE j - 1
                               /\ u[b] = s[j]
    BY <1>2, <2>2
  <2>6. a <= b
    BY <2>2, <2>3, <2>4, <2>5
  <2>7. QED
    BY <1>0, <2>1, <2>3, <2>4, <2>5, <2>6, NeedsMember
<1>4. QED
  BY <1>1, <1>3

\* Nothing that the requirement speaks of has changed.
LEMMA StutterFacts ==
    ASSUME UNCHANGED <<url, host, allows, requests, loading_policy_files, ticket>>,
           \A l \in Loads : /\ load'[l] = "waiting" <=> load[l] = "waiting"
                            /\ AnswerOf(l)' = AnswerOf(l)
    PROVE  UNCHANGED Requirement!vars
<1>1. \A l \in Loads : Needs(l)' = Needs(l)
  BY NeedsFacts
<1>2. Loading' = Loading /\ Granted' = Granted
  BY DEF Loading, Granted
<1>3. QED
  BY <1>1, <1>2 DEF Requirement!vars
LEMMA AnswerFacts ==
    /\ \A l \in Loads : AnswerOf(l) = CASE load[l] \in {"loading", "ended"} -> "yes"
                                        [] load[l] = "denied" -> "no"
                                        [] OTHER -> "none"
    /\ \A l \in Loads : AnswerOf(l)' = CASE load'[l] \in {"loading", "ended"} -> "yes"
                                         [] load'[l] = "denied" -> "no"
                                         [] OTHER -> "none"
BY DEF AnswerOf

\* A policy file without or with a load that waits for it.
LEMMA NewFileMapped ==
    ASSUME IInv, NEW h \in Hosts, NEW w \in Seq(Loads), NewFile(h, w)
    PROVE  /\ \E f \in Loading' : f \notin Loading /\ Loading' = Loading \union {f}
           /\ Granted' = Granted
           /\ \A l \in Loads : Needs(l)' = IF l \in Elements(w) THEN Loading'
                                           ELSE Needs(l)
<1> DEFINE new == Len(host) + 1
<1>1. TypeOK /\ FilesLoadOnce
  BY DEF IInv
<1>2. /\ new \notin Files
      /\ \A f \in Files : requests'[f] = requests[f]
      /\ requests'[new] = w
      /\ Len(loading_policy_files) \in Nat
      /\ Len(loading_policy_files') = Len(loading_policy_files) + 1
      /\ loading_policy_files'[1] = new
      /\ \A i \in 2..Len(loading_policy_files) + 1 :
            loading_policy_files'[i] = loading_policy_files[i - 1]
      /\ \A i \in 1..Len(loading_policy_files) : loading_policy_files[i] \in Files
  BY <1>1, NewFileWaiters
<1>3. /\ loading_policy_files' = <<new>> \o loading_policy_files
      /\ loading_policy_files \in Seq(Nat) /\ new \in Nat
      /\ host \in Seq(Hosts) /\ host' = Append(host, h)
      /\ allows' = allows /\ allows \subseteq Files
  BY <1>1, SeqMonotonic DEF NewFile, TypeOK, Files
<1> HIDE DEF new
<1>4. /\ Distinct(loading_policy_files)
      /\ Elements(loading_policy_files) = Loading
      /\ Elements(loading_policy_files') = Loading'
  BY <1>1 DEF Distinct, Elements, Loading, FilesLoadOnce
<1>5. new \notin Loading
  BY <1>2 DEF Loading
<1>6. Loading' = Loading \union {new}
  BY <1>3, <1>4, <1>5, PrependDistinct
<1>7. Granted' = Granted
  <2>1. \A f \in allows : host'[f] = host[f]
    BY <1>3, AppendFacts DEF Files
  <2>2. QED
    BY <1>3, <2>1 DEF Granted
<1>8. \A l \in Loads : Needs(l)' = IF l \in Elements(w) THEN Loading' ELSE Needs(l)
  <2> SUFFICES ASSUME NEW l \in Loads
               PROVE  NeedsIn(loading_policy_files', requests', l)
                         = IF l \in Elements(w) THEN Loading'
                           ELSE NeedsIn(loading_policy_files, requests, l)
    BY NeedsFacts
  <2>1. \A i \in 1..Len(loading_policy_files) :
           requests'[loading_policy_files[i]] = requests[loading_policy_files[i]]
    BY <1>2
  <2>2. QED
    BY <1>2, <1>4, <2>1, PrependNeeds
<1>9. QED
  BY <1>5, <1>6, <1>7, <1>8

LEMMA RunMapped ==
    ASSUME IInv, RunRequest
    PROVE  [Requirement!Next]_Requirement!vars
<1>1. /\ TypeOK /\ RequestedOnce /\ WaitingIsKept /\ WaitingInOrder
      /\ load \in [Loads -> {"none", "requested", "waiting", "denied", "loading", "ended"}]
      /\ url \in [Loads -> Hosts] /\ ticket \in [Loads -> Nat] /\ asked \in Nat
      /\ run \in Seq(Request) /\ run # <<>>
      /\ url' = url
  BY DEF RunRequest, TypeOK, IInv
<1>2. /\ Head(run) = run[1] /\ run[1] \in Request /\ 1 \in 1..Len(run)
  BY <1>1, TailFacts
<1>3. ASSUME NEW h \in Hosts, RunPolicy(h) PROVE Requirement!Next
  <2>1. NewFile(h, <<>>) /\ UNCHANGED <<load, ticket>> /\ <<>> \in Seq(Loads)
        /\ Elements(<<>>) = {}
    BY <1>3, ElementsFacts DEF RunPolicy, history
  <2>2. Requirement!Starts /\ Granted' = Granted /\ \A l \in Loads : Needs(l)' = Needs(l)
    BY <2>1, NewFileMapped DEF Requirement!Starts
  <2>3. \A l \in Loads : AnswerOf(l)' = AnswerOf(l) /\ load'[l] = load[l]
    BY <2>1, AnswerFacts
  <2>4. Requirement!Load
    BY <1>1, <2>1, <2>2, <2>3 DEF Requirement!Load
  <2>5. QED
    BY <2>4 DEF Requirement!Next
<1>4. ASSUME NEW l \in Loads, run[1] = Load(l), RunLoad(l)
      PROVE  Requirement!Next
  <2> DEFINE now == Permission[url[l]] = "yes"
                       \/ (Permission[url[l]] = "policy" /\ Allowed(url[l]))
  <2>1. load[l] = "requested"
    BY <1>1, <1>2, <1>4 DEF RequestedOnce, Executes
  <2>2. url[l] \in Granted <=> Allowed(url[l])
    BY DEF Granted, Allowed
  <2>3. CASE /\ now \/ Permission[url[l]] = "no"
             /\ Answered(l, now)
             /\ UNCHANGED <<files, history>>
    <3>1. UNCHANGED <<host, requests, loading_policy_files, allows, ticket>>
      BY <2>3 DEF files, history
    <3>2. /\ \A k \in Loads : load'[k] = "waiting" <=> load[k] = "waiting"
          /\ \A k \in Loads : AnswerOf(k)' = IF k # l THEN AnswerOf(k)
                                             ELSE IF now THEN "yes" ELSE "no"
          /\ AnswerOf(l) = "none"
      BY <1>1, <2>1, <2>3, AnswerFacts DEF Answered
    <3>3. (\A k \in Loads : Needs(k)' = Needs(k)) /\ Loading' = Loading /\ Granted' = Granted
      BY <3>1, NeedsFacts DEF Loading, Granted
    <3>4. IF now THEN \/ Permission[url[l]] = "yes"
                      \/ Permission[url[l]] = "policy" /\ url[l] \in Granted
                 ELSE Permission[url[l]] = "no"
      BY <2>2, <2>3
    <3> HIDE DEF now
    <3>5. Requirement!Immediate(l, now)
      BY <1>1, <2>1, <3>1, <3>2, <3>3, <3>4 DEF Requirement!Immediate, Requirement!Answer
    <3>6. now \in BOOLEAN
      BY DEF now
    <3>7. QED
      BY <3>5, <3>6 DEF Requirement!Next
  <2>4. CASE /\ ~now
             /\ Permission[url[l]] = "policy"
             /\ load' = [load EXCEPT ![l] = "waiting"]
             /\ NewFile(url[l], <<l>>)
             /\ asked' = asked + 1
             /\ ticket' = [ticket EXCEPT ![l] = asked + 1]
    <3>1. url[l] \in Hosts /\ <<l>> \in Seq(Loads)
      BY <1>1
    <3>2. Elements(<<l>>) = {l}
      BY ElementsFacts
    <3>3. /\ Requirement!Starts
          /\ Granted' = Granted
          /\ \A k \in Loads : Needs(k)' = IF k = l THEN Loading' ELSE Needs(k)
      BY <2>4, <3>1, <3>2, NewFileMapped DEF Requirement!Starts
    <3>4. /\ \A k \in Loads : load'[k] = "waiting" <=> load[k] = "waiting" \/ k = l
          /\ \A k \in Loads : AnswerOf(k)' = AnswerOf(k)
          /\ AnswerOf(l) = "none"
      BY <1>1, <2>1, <2>4, AnswerFacts
    <3>5. \A k \in Loads : ticket[k] < ticket'[l]
      BY <1>1, <2>4 DEF WaitingInOrder
    <3>6. ticket' = [ticket EXCEPT ![l] = ticket'[l]]
      BY <1>1, <2>4
    <3>7. url[l] \notin Granted
      BY <2>2, <2>4
    <3>8. {k \in Loads : load'[k] = "waiting"} = {k \in Loads : load[k] = "waiting"} \union {l}
      BY <3>4
    <3>9. [k \in Loads |-> Needs(k)'] = [[k \in Loads |-> Needs(k)] EXCEPT ![l] = Loading']
      BY <3>3
    <3>10. Requirement!Wait(l)
      BY <1>1, <2>1, <2>4, <3>3, <3>4, <3>5, <3>6, <3>7, <3>8, <3>9 DEF Requirement!Wait
    <3>11. QED
      BY <3>10 DEF Requirement!Next
  <2>5. QED
    BY <1>4, <2>3, <2>4 DEF RunLoad
<1>5. \/ Head(run).kind = "policy" /\ RunPolicy(Head(run).host)
      \/ Head(run).kind = "load" /\ RunLoad(Head(run).load)
  BY DEF RunRequest
<1>6. QED
  BY <1>2, <1>3, <1>4, <1>5, RequestFacts
LEMMA FinishedMapped ==
    ASSUME IInv, NEW p \in 1..Len(loading_policy_files), NEW allow \in BOOLEAN,
           FinishedLoading(p, allow)
    PROVE  Requirement!Next
<1> DEFINE f == loading_policy_files[p]
           hosts == IF allow THEN {host[f]} ELSE {}
<1>1. /\ TypeOK /\ FilesLoadOnce
      /\ loading_policy_files \in Seq(Files) /\ host \in Seq(Hosts)
      /\ loading_policy_files' = Without(loading_policy_files, p)
      /\ allows' = (IF allow THEN allows \union {f} ELSE allows)
      /\ UNCHANGED <<load, url, ticket, host>>
  BY DEF IInv, TypeOK, FinishedLoading, history
<1>2. /\ Len(loading_policy_files) \in Nat
      /\ f \in Files
      /\ \A i \in 1..Len(loading_policy_files) : loading_policy_files[i] \in Files
      /\ \A g \in Files : requests[g] \in Seq(Loads)
      /\ Len(loading_policy_files') = Len(loading_policy_files) - 1
      /\ \A i \in 1..Len(loading_policy_files) - 1 :
            loading_policy_files'[i] = IF i < p THEN loading_policy_files[i]
                                       ELSE loading_policy_files[i + 1]
  BY <1>1, FinishedFacts
<1>3. /\ Distinct(loading_policy_files)
      /\ Elements(loading_policy_files) = Loading
      /\ Elements(loading_policy_files') = Loading'
  BY <1>1 DEF Distinct, Elements, Loading, FilesLoadOnce
<1>4. Loading' = Loading \ {f} /\ f \in Loading
  <2>1. f \in Loading
    BY DEF Loading
  <2>2. QED
    BY <1>1, <1>3, <2>1, WithoutDistinct
<1>5. Granted' = Granted \union hosts
  BY <1>1 DEF Granted
<1>6. hosts \in SUBSET Hosts
  BY <1>1, <1>2, ElementOfSeq DEF Files
<1>7. ASSUME NEW i \in 1..Len(loading_policy_files), i # p
      PROVE  Elements(requests'[loading_policy_files[i]])
                = IF i = p + 1
                  THEN Elements(requests[loading_policy_files[i]]) \union Elements(requests[f])
                  ELSE Elements(requests[loading_policy_files[i]])
  <2> DEFINE g == loading_policy_files[i]
  <2>1. g # f /\ g \in Files
    BY <1>2, <1>3, <1>7 DEF Distinct
  <2>2. CASE i = p + 1
    <3>1. p < Len(loading_policy_files) /\ g = loading_policy_files[p + 1]
      BY <1>2, <2>2
    <3>2. requests'[g] = requests[g] \o requests[f]
      BY <1>1, <2>1, <3>1, FinishedFacts
    <3>3. requests[g] \in Seq(Loads) /\ requests[f] \in Seq(Loads)
      BY <1>2, <2>1
    <3> HIDE DEF g, f
    <3>4. Elements(requests'[g]) = Elements(requests[g]) \union Elements(requests[f])
      BY <3>2, <3>3, ElementsFacts
    <3>5. QED
      BY <2>2, <3>4 DEF g
  <2>3. CASE i # p + 1
    <3>1. p < Len(loading_policy_files) => g # loading_policy_files[p + 1]
      <4>1. ASSUME p < Len(loading_policy_files)
            PROVE  p + 1 \in 1..Len(loading_policy_files)
        BY <1>2, <4>1
      <4>2. QED
        BY <1>3, <2>3, <4>1 DEF Distinct
    <3>2. requests'[g] = requests[g]
      BY <1>1, <2>1, <3>1, FinishedFacts
    <3>3. QED
      BY <2>3, <3>2
  <2>4. QED
    BY <2>2, <2>3
<1>8. \A l \in Loads : Needs(l)' = Needs(l) \ {f}
  <2> SUFFICES ASSUME NEW l \in Loads
               PROVE  NeedsIn(loading_policy_files', requests', l)
                         = NeedsIn(loading_policy_files, requests, l) \ {f}
    BY NeedsFacts
  <2> DEFINE s == loading_policy_files
             u == loading_policy_files'
             r == requests
             q == requests'
  <2>1. /\ Len(s) \in Nat /\ Len(u) = Len(s) - 1 /\ p \in 1..Len(s) /\ Distinct(s)
        /\ f = s[p]
        /\ \A i \in 1..Len(s) - 1 : u[i] = IF i < p THEN s[i] ELSE s[i + 1]
    BY <1>2, <1>3
  <2>2. \A i \in 1..Len(s) : i # p =>
           Elements(q[s[i]]) = IF i = p + 1
                               THEN Elements(r[s[i]]) \union Elements(r[s[p]])
                               ELSE Elements(r[s[i]])
    BY <1>7
  <2> HIDE DEF s, u, r, q, f
  <2>3. NeedsIn(u, q, l) = NeedsIn(s, r, l) \ {s[p]}
    <3>1. Moved(s, u, r, q, p)
      BY <2>1, <2>2 DEF Moved
    <3>2. QED
      BY <3>1, MoveNeeds
  <2>4. QED
    BY <2>1, <2>3 DEF s, u, r, q
<1>9. \A l \in Loads : AnswerOf(l)' = AnswerOf(l)
  BY <1>1, AnswerFacts
<1> HIDE DEF f, hosts
<1>10. Requirement!Finish(f, hosts)
  BY <1>1, <1>4, <1>5, <1>8, <1>9 DEF Requirement!Finish
<1>11. QED
  BY <1>4, <1>6, <1>10 DEF Requirement!Next

LEMMA AnswerMapped ==
    ASSUME IInv, AnswerRequest
    PROVE  Requirement!Next
<1>1. /\ TypeOK /\ WaitingIsKept /\ WaitingInOrder
      /\ load \in [Loads -> {"none", "requested", "waiting", "denied", "loading", "ended"}]
      /\ ticket \in [Loads -> Nat] /\ answering \in Seq(Loads)
      /\ Len(loading_policy_files) \in Nat
      /\ \A i \in 1..Len(loading_policy_files) : loading_policy_files[i] \in Files
  BY ElementOfSeq DEF IInv, TypeOK
<1>2. PICK first \in Loads :
         /\ answering # <<>>
         /\ first = Head(answering)
         /\ load[first] = "waiting"
         /\ Answered(first, Allowed(url[first]))
         /\ UNCHANGED <<url, host, allows, requests, loading_policy_files, ticket>>
  BY <1>1, HeadWaits DEF AnswerRequest, history
<1>3. first \in Loads /\ load[first] = "waiting"
  BY <1>2
<1>4. /\ \A l \in Loads : load[l] = "waiting" <=>
            (\E g \in Files : l \in Elements(requests[g])) \/ l \in Elements(answering)
      /\ Ordered
  BY <1>1, KeptFacts, OrderFacts
<1>5. /\ Below(ticket, {first}, Elements(Tail(answering)))
      /\ Elements(answering) = Elements(Tail(answering)) \union {first}
  BY <1>1, <1>2, <1>4, IncreasingTail DEF Ordered
<1>6. \A g \in Files : Below(ticket, {first}, Elements(requests[g]))
  BY <1>4, <1>5 DEF Ordered, Below
<1>7. \A k \in Loads : load[k] = "waiting" /\ k # first => ticket[first] < ticket[k]
  BY <1>4, <1>5, <1>6 DEF Below
<1>8. \A g \in Files : first \notin Elements(requests[g])
  BY <1>1, <1>3, <1>6 DEF Below
<1>9. Needs(first) = {}
  BY <1>1, <1>8, NeedsFacts, NeedsMember
<1>10. /\ \A k \in Loads : Needs(k)' = Needs(k)
       /\ Loading' = Loading /\ Granted' = Granted
  BY <1>2, NeedsFacts DEF Loading, Granted
<1>11. url[first] \in Granted <=> Allowed(url[first])
  BY DEF Granted, Allowed
<1>12. {k \in Loads : load'[k] = "waiting"} = {k \in Loads : load[k] = "waiting"} \ {first}
  BY <1>1, <1>2, <1>3 DEF Answered
<1>13. \A k \in Loads : AnswerOf(k)' = IF k # first THEN AnswerOf(k)
                                       ELSE IF Allowed(url[first]) THEN "yes" ELSE "no"
  BY <1>1, <1>2, <1>3, AnswerFacts DEF Answered
<1>14. [k \in Loads |-> AnswerOf(k)']
          = [[k \in Loads |-> AnswerOf(k)] EXCEPT
               ![first] = IF url[first] \in Granted THEN "yes" ELSE "no"]
  BY <1>3, <1>11, <1>13
<1>15. Requirement!Reply(first)
  BY <1>2, <1>3, <1>7, <1>9, <1>10, <1>12, <1>14
     DEF Requirement!Reply, Requirement!Answer
<1>16. QED
  BY <1>3, <1>15 DEF Requirement!Next

LEMMA StepMapped ==
    IInv /\ [Next]_vars => [Requirement!Next]_Requirement!vars
<1> SUFFICES ASSUME IInv, [Next]_vars PROVE [Requirement!Next]_Requirement!vars
  OBVIOUS
<1>0. load \in [Loads -> {"none", "requested", "waiting", "denied", "loading", "ended"}]
  BY DEF IInv, TypeOK
<1>1. ASSUME NEW l \in Loads, Create(l) PROVE UNCHANGED Requirement!vars
  <2>1. UNCHANGED <<url, host, allows, requests, loading_policy_files, ticket>>
    BY <1>1 DEF Create, files, history
  <2>2. \A k \in Loads : /\ load'[k] = "waiting" <=> load[k] = "waiting"
                         /\ AnswerOf(k)' = AnswerOf(k)
    BY <1>0, <1>1, AnswerFacts DEF Create
  <2>3. QED
    BY <2>1, <2>2, StutterFacts
<1>2. ASSUME NEW l \in Loads, LoadEnds(l) PROVE UNCHANGED Requirement!vars
  <2>1. UNCHANGED <<url, host, allows, requests, loading_policy_files, ticket>>
    BY <1>2 DEF LoadEnds, files, history
  <2>2. \A k \in Loads : /\ load'[k] = "waiting" <=> load[k] = "waiting"
                         /\ AnswerOf(k)' = AnswerOf(k)
    BY <1>0, <1>2, AnswerFacts DEF LoadEnds
  <2>3. QED
    BY <2>1, <2>2, StutterFacts
<1>3. ASSUME UNCHANGED <<load, url, files, history>> PROVE UNCHANGED Requirement!vars
  <2>1. \A k \in Loads : load'[k] = load[k] /\ AnswerOf(k)' = AnswerOf(k)
    BY <1>3, AnswerFacts
  <2>2. QED
    BY <1>3, <2>1, StutterFacts DEF files, history
<1>4. ASSUME NEW h \in Hosts, LoadPolicyFile(h) PROVE UNCHANGED Requirement!vars
  BY <1>3, <1>4 DEF LoadPolicyFile
<1>5. CASE EndFrame
  BY <1>3, <1>5 DEF EndFrame
<1>6. CASE UNCHANGED vars
  BY <1>3, <1>6 DEF vars
<1>7. QED
  BY <1>1, <1>2, <1>4, <1>5, <1>6, RunMapped, FinishedMapped, AnswerMapped DEF Next

LEMMA InitMapped == Init => Requirement!Init
<1> SUFFICES ASSUME Init PROVE Requirement!Init
  OBVIOUS
<1>1. /\ Loading = {} /\ Granted = {}
      /\ {l \in Loads : load[l] = "waiting"} = {}
  BY DEF Init, Loading, Granted
<1>2. \A l \in Loads : Needs(l) = {} /\ AnswerOf(l) = "none"
  <2>1. loading_policy_files = <<>> /\ \A l \in Loads : load[l] = "none"
    BY DEF Init
  <2>2. QED
    BY <2>1, NeedsFacts, AnswerFacts DEF NeedsIn
<1>3. QED
  BY <1>1, <1>2 DEF Init, Requirement!Init

\* However policy files hand requests to one another, each load gets the
\* answer that the requirement names, after all files that it has to wait for
\* and after all loads that asked before it.
THEOREM Refinement == Spec => ImplementsRequirement
<1>1. Init => Requirement!Init
  BY InitMapped
<1>2. IInv /\ [Next]_vars => [Requirement!Next]_Requirement!vars
  BY StepMapped
<1>3. QED
  BY <1>1, <1>2, Invariance, PTL DEF Spec, ImplementsRequirement, Requirement!Spec
=============================================================================
