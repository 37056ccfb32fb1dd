-------------------------- MODULE LifecycleProofs --------------------------
(***************************************************************************)
(* Proofs that the restart policy limits planned and carried out restarts, *)
(* for every configuration, clock and number of exits.                     *)
(***************************************************************************)
EXTENDS Lifecycle, SequenceTheorems, TLAPS

\* The attempts the policy remembers are the last of the planned restarts.
Remembered ==
  /\ Len(policy.attempts) <= Len(decided)
  /\ \A i \in 1 .. Len(policy.attempts) :
       policy.attempts[i] = decided[Len(decided) - Len(policy.attempts) + i]

\* The others are a window old.
Forgotten ==
  Limited => \A i \in 1 .. (Len(decided) - Len(policy.attempts)) :
               latest.at - decided[i] >= config.window

\* Stamps are taken in the order of the clock.
Past ==
  /\ latest.at <= now /\ launched <= now
  /\ \A i \in DOMAIN decided : decided[i] <= latest.at
  /\ \A i \in DOMAIN relaunched : relaunched[i] <= now

\* What will be planned for this generation was not planned before.
PlanAhead == Has_process \/ task.kind \in {"auto", "timeout"}

BeforeLaunch ==
  PlanAhead => /\ \A i \in DOMAIN decided : decided[i] <= launched
               /\ \A i \in DOMAIN relaunched : relaunched[i] <= launched

\* The stamp kept in a task is newer than every stamp used so far.
TaskStamp ==
  task.kind = "auto" => /\ root = "gone"
                        /\ latest.at <= task.at /\ task.at <= now
                        /\ launched <= task.at /\ task.life = task.at - launched

\* A program with a process and a task is being stopped.
TaskState == Has_process /\ task.kind # "none" => st = "REQUEST_STOP"

\* Restarts are planned and carried out in turn.
Paired ==
  /\ Has_process \/ task.kind # "none" => Len(relaunched) = Len(decided)
  /\ pending => Len(decided) = Len(relaunched) + 1 /\ root = "gone" /\ task.kind = "none"
  /\ Len(relaunched) <= Len(decided)
  /\ \A i \in 1 .. Len(relaunched) : decided[i] <= relaunched[i]
  /\ \A i \in 1 .. Len(relaunched) : i + 1 <= Len(decided) => relaunched[i] <= decided[i + 1]

IInv == /\ TypeOK /\ Remembered /\ Forgotten /\ Past /\ BeforeLaunch /\ TaskStamp
        /\ TaskState /\ Paired /\ RestartsBounded

\* A restart delay is an integer.
LEMMA BackOffType ==
  ASSUME config \in Configs, NEW n \in Nat
  PROVE  BackOff(n) \in Int
<1>1. config.delay \in Nat /\ config.max_delay \in Nat
  BY ConfigsAssumption DEF ConfigSpace
<1>2. 2^n \in Int
  OBVIOUS
<1> QED BY <1>1, <1>2 DEF BackOff, Min2, Max2

\* The facts about a configuration that the proofs use.
LEMMA ConfigType ==
  ASSUME config \in Configs
  PROVE  /\ config.window \in Nat /\ config.max_attempts \in Nat /\ config.reset_after \in Nat
         /\ config.kill_timeout \in Nat /\ config.start_timeout \in Int /\ config.heartbeat \in Int
  BY ConfigsAssumption DEF ConfigSpace

\* Dropping the first k elements of a sequence.
LEMMA DropFirst ==
  ASSUME NEW a \in Seq(Nat), NEW k \in 0 .. Len(a)
  PROVE  /\ SubSeq(a, k + 1, Len(a)) \in Seq(Nat)
         /\ Len(SubSeq(a, k + 1, Len(a))) = Len(a) - k
         /\ \A i \in 1 .. Len(a) - k : SubSeq(a, k + 1, Len(a))[i] = a[k + i]
<1>1. Len(a) \in Nat /\ \A i \in 1 .. Len(a) : a[i] \in Nat
  BY LenProperties
<1>2. Len(SubSeq(a, k + 1, Len(a))) = Len(a) - k
  BY <1>1
<1>3. \A i \in 1 .. Len(a) - k : SubSeq(a, k + 1, Len(a))[i] = a[k + i]
  BY <1>1, <1>2
<1> QED BY <1>1, <1>2, <1>3

\* If a is the end of d, then so is what is left of a when k elements are dropped.
LEMMA KeptIsLast ==
  ASSUME NEW a \in Seq(Nat), NEW d \in Seq(Nat), NEW k \in 0 .. Len(a), NEW kept \in Seq(Nat),
         Len(a) <= Len(d),
         \A i \in 1 .. Len(a) : a[i] = d[Len(d) - Len(a) + i],
         Len(kept) = Len(a) - k,
         \A i \in 1 .. Len(kept) : kept[i] = a[k + i]
  PROVE  \A i \in 1 .. Len(kept) : kept[i] = d[Len(d) - Len(kept) + i]
<1>1. Len(a) \in Nat /\ Len(d) \in Nat /\ Len(kept) \in Nat
  OBVIOUS
<1> TAKE i \in 1 .. Len(kept)
<1>2. k + i \in 1 .. Len(a) /\ Len(d) - Len(a) + (k + i) = Len(d) - Len(kept) + i
  BY <1>1
<1>3. kept[i] = a[k + i] /\ a[k + i] = d[Len(d) - Len(a) + (k + i)]
  BY ZenonT(40), <1>2
<1> QED BY <1>2, <1>3

\* If moreover everything before a and the dropped elements are w old, so is
\* everything before what is left.
LEMMA OldPrefix ==
  ASSUME NEW a \in Seq(Nat), NEW d \in Seq(Nat), NEW k \in 0 .. Len(a), NEW kept \in Seq(Nat),
         NEW at \in Nat, NEW w \in Nat,
         Len(a) <= Len(d),
         \A i \in 1 .. Len(a) : a[i] = d[Len(d) - Len(a) + i],
         Len(kept) = Len(a) - k,
         \A i \in 1 .. (Len(d) - Len(a)) : at - d[i] >= w,
         \A i \in 1 .. k : at - a[i] >= w
  PROVE  \A i \in 1 .. (Len(d) - Len(kept)) : at - d[i] >= w
<1>1. Len(a) \in Nat /\ Len(d) \in Nat /\ Len(kept) \in Nat
  OBVIOUS
<1> TAKE i \in 1 .. (Len(d) - Len(kept))
<1>2. CASE i <= Len(d) - Len(a)
  BY <1>1, <1>2
<1>3. CASE i > Len(d) - Len(a)
  <2>1. PICK j \in 1 .. k : i = Len(d) - Len(a) + j
    <3>1. i - (Len(d) - Len(a)) \in 1 .. k
      BY <1>1, <1>3
    <3>2. i = Len(d) - Len(a) + (i - (Len(d) - Len(a)))
      BY <1>1
    <3> QED BY <3>1, <3>2, Zenon
  <2>2. j \in 1 .. Len(a)
    BY <1>1
  <2> QED BY ZenonT(40), <2>1, <2>2
<1> QED BY <1>1, <1>2, <1>3

\* What one call of plan_automatic_restart does to the policy and the history.
LEMMA PlanStep ==
  ASSUME TypeOK, Remembered, Forgotten, Past, RestartsBounded,
         NEW at \in Nat, NEW life \in Int, latest.at <= at, life = at - launched,
         \A i \in DOMAIN decided : decided[i] <= launched,
         plan_automatic_restart(at, life), config' = config
  PROVE  /\ policy' \in [attempts : Seq(Nat), failures : Nat, suppressed : BOOLEAN]
         /\ pending' \in BOOLEAN /\ due' \in Int
         /\ latest' = [at |-> at, when |-> now]
         /\ decided' = IF pending' THEN Append(decided, at) ELSE decided
         /\ Remembered' /\ Forgotten' /\ RestartsBounded'
<1> DEFINE known == IF config.reset_after > 0 /\ life >= config.reset_after THEN NewPolicy ELSE policy
           a == known.attempts
<1>a. config.window \in Nat /\ config.max_attempts \in Nat /\ config.reset_after \in Nat
  BY ConfigType DEF TypeOK
<1>b. /\ decided \in Seq(Nat) /\ Len(decided) \in Nat /\ DOMAIN decided = 1 .. Len(decided)
      /\ \A i \in 1 .. Len(decided) : decided[i] \in Nat
  BY SMTT(40), SMTT(41), LenProperties DEF TypeOK
<1>e. Len(decided) \in Nat
  BY <1>b
<1>c. /\ policy.attempts \in Seq(Nat) /\ Len(policy.attempts) \in Nat
  BY LenProperties DEF TypeOK
<1>d. latest.at \in Nat /\ launched \in Nat
  BY DEF TypeOK
<1>1. known \in [attempts : Seq(Nat), failures : Nat, suppressed : BOOLEAN]
  BY DEF TypeOK, NewPolicy
<1>2. a \in Seq(Nat) /\ Len(a) \in Nat /\ known.failures \in Nat
  BY <1>1
<1>3. PICK k \in 0 .. Len(a) :
        /\ Expired(a, at, k)
        /\ LET kept == SubSeq(a, k + 1, Len(a))
           IN  IF config.max_attempts > 0 /\ Len(kept) >= config.max_attempts
               THEN /\ policy' = [known EXCEPT !.attempts = kept, !.suppressed = TRUE]
                    /\ pending' = FALSE /\ due' = 0 /\ decided' = decided
               ELSE /\ policy' = [attempts |-> Append(kept, at), failures |-> known.failures + 1,
                                  suppressed |-> FALSE]
                    /\ pending' = TRUE /\ due' = at + BackOff(known.failures)
                    /\ decided' = Append(decided, at)
        /\ latest' = [at |-> at, when |-> now]
  BY ZenonT(40) DEF plan_automatic_restart
<1>4. PICK kept \in Seq(Nat) : /\ kept = SubSeq(a, k + 1, Len(a))
                               /\ Len(kept) = Len(a) - k
                               /\ \A i \in 1 .. Len(a) - k : kept[i] = a[k + i]
  <2> HIDE DEF a
  <2> QED BY ZenonT(40), <1>2, DropFirst
\* The attempts that are still known are the last ones; the others are old.
<1>5. /\ Len(a) <= Len(decided)
      /\ \A i \in 1 .. Len(a) : a[i] = decided[Len(decided) - Len(a) + i]
  <2>1. CASE config.reset_after > 0 /\ life >= config.reset_after
    <3>1. a = <<>>
      BY <2>1 DEF NewPolicy
    <3> HIDE DEF a
    <3> QED BY <1>b, <3>1
  <2>2. CASE ~(config.reset_after > 0 /\ life >= config.reset_after)
    <3>1. a = policy.attempts
      BY <2>2
    <3> HIDE DEF a
    <3> QED BY ZenonT(40), <1>b, <3>1 DEF Remembered
  <2> QED BY ZenonT(40), <2>1, <2>2
<1>6. Limited => \A i \in 1 .. (Len(decided) - Len(a)) : at - decided[i] >= config.window
  <2>1. CASE config.reset_after > 0 /\ life >= config.reset_after
    <3>1. ASSUME Limited, NEW i \in 1 .. Len(decided) PROVE at - decided[i] >= config.window
      <4>1. decided[i] <= launched /\ decided[i] \in Nat
        BY ZenonT(40), <1>b
      <4> QED BY SMTT(40), SMTT(41), <1>a, <1>d, <2>1, <3>1, <4>1 DEF Limited
    <3>2. Len(a) \in Nat
      BY <1>2
    <3> HIDE DEF a
    <3> QED BY <1>b, <3>1, <3>2
  <2>2. CASE ~(config.reset_after > 0 /\ life >= config.reset_after)
    <3>1. a = policy.attempts
      BY <2>2
    <3>2. ASSUME Limited, NEW i \in 1 .. (Len(decided) - Len(policy.attempts))
          PROVE  at - decided[i] >= config.window
      <4>1. latest.at - decided[i] >= config.window
        BY <3>2 DEF Forgotten
      <4>2. decided[i] \in Nat
        BY <1>b, <1>c
      <4> QED BY SMTT(40), SMTT(41), <1>a, <1>d, <4>1, <4>2
    <3> HIDE DEF a
    <3> QED BY <3>1, <3>2
  <2> QED BY <2>1, <2>2
<1>7. /\ Len(kept) <= Len(decided)
      /\ \A i \in 1 .. Len(kept) : kept[i] = decided[Len(decided) - Len(kept) + i]
      /\ Limited => \A i \in 1 .. (Len(decided) - Len(kept)) : at - decided[i] >= config.window
  <2>1. \A i \in 1 .. k : at - a[i] >= config.window
    BY ZenonT(40), <1>3 DEF Expired
  <2> HIDE DEF a
  <2>2. Len(kept) = Len(a) - k /\ \A i \in 1 .. Len(kept) : kept[i] = a[k + i]
    BY <1>4
  <2>3. \A i \in 1 .. Len(kept) : kept[i] = decided[Len(decided) - Len(kept) + i]
    BY <1>b, <1>2, <1>5, <2>2, KeptIsLast, Zenon
  <2>5. Len(kept) <= Len(decided)
    BY <1>e, <1>2, <1>5, <2>2
  <2>4. ASSUME Limited
        PROVE  \A i \in 1 .. (Len(decided) - Len(kept)) : at - decided[i] >= config.window
    BY <1>a, <1>b, <1>2, <1>5, <1>6, <2>1, <2>2, <2>4, OldPrefix, Zenon
  <2> QED BY <2>3, <2>4, <2>5
<1>8. CASE config.max_attempts > 0 /\ Len(kept) >= config.max_attempts
  <2>1. /\ policy' = [known EXCEPT !.attempts = kept, !.suppressed = TRUE]
        /\ pending' = FALSE /\ due' = 0 /\ decided' = decided
        /\ latest' = [at |-> at, when |-> now]
    BY <1>3, <1>4, <1>8
  <2> HIDE DEF known, a
  <2>2. policy' \in [attempts : Seq(Nat), failures : Nat, suppressed : BOOLEAN] /\ policy'.attempts = kept
    BY ZenonT(40), <1>1, <1>4, <2>1
  <2>3. Remembered'
    BY <1>7, <2>1, <2>2 DEF Remembered
  <2>4. Forgotten'
    BY <1>7, <2>1, <2>2 DEF Forgotten, Limited
  <2>5. RestartsBounded'
    BY <2>1 DEF RestartsBounded, Limited
  <2>6. decided' = IF pending' THEN Append(decided, at) ELSE decided
    BY <2>1
  <2>7. pending' \in BOOLEAN
    BY <2>1, Zenon
  <2>8. due' \in Int
    BY <2>1
  <2> QED BY <2>1, <2>2, <2>3, <2>4, <2>5, <2>6, <2>7, <2>8, Zenon
<1>9. CASE ~(config.max_attempts > 0 /\ Len(kept) >= config.max_attempts)
  <2>1. /\ policy' = [attempts |-> Append(kept, at), failures |-> known.failures + 1,
                      suppressed |-> FALSE]
        /\ pending' = TRUE /\ due' = at + BackOff(known.failures)
        /\ decided' = Append(decided, at)
        /\ latest' = [at |-> at, when |-> now]
    BY ZenonT(40), <1>3, <1>4, <1>9
  <2> HIDE DEF known, a
  <2>2. /\ Len(decided') = Len(decided) + 1 /\ DOMAIN decided' = 1 .. Len(decided) + 1
        /\ \A i \in 1 .. Len(decided) : decided'[i] = decided[i]
        /\ decided'[Len(decided) + 1] = at
    BY <1>b, <2>1
  <2>3. /\ policy'.attempts = Append(kept, at) /\ Len(policy'.attempts) = Len(kept) + 1
        /\ \A i \in 1 .. Len(kept) : policy'.attempts[i] = kept[i]
        /\ policy'.attempts[Len(kept) + 1] = at /\ Len(kept) \in Nat
    BY <2>1
  <2>4. policy' \in [attempts : Seq(Nat), failures : Nat, suppressed : BOOLEAN]
    BY SMTT(40), SMTT(41), <1>2, <2>1
  <2>5. due' \in Int
    BY SMTT(40), SMTT(41), <1>2, <2>1, BackOffType DEF TypeOK
  <2>6. Remembered'
    <3>1. Len(kept) + 1 <= Len(decided) + 1
      BY <1>7, <1>e, <2>3
    <3>2. ASSUME NEW i \in 1 .. Len(kept) + 1
          PROVE  policy'.attempts[i] = decided'[Len(decided) + 1 - (Len(kept) + 1) + i]
      <4>1. CASE i = Len(kept) + 1
        BY <1>e, <2>2, <2>3, <4>1
      <4>2. CASE i # Len(kept) + 1
        <5>1. i \in 1 .. Len(kept) /\ Len(decided) - Len(kept) + i \in 1 .. Len(decided)
          BY <1>7, <1>e, <2>3, <4>2
        <5>2. Len(decided) + 1 - (Len(kept) + 1) + i = Len(decided) - Len(kept) + i
          BY <1>e, <2>3
        <5> QED BY ZenonT(40), <1>7, <2>2, <2>3, <5>1, <5>2
      <4> QED BY <4>1, <4>2
    <3>3. \A i \in 1 .. Len(policy'.attempts) :
            policy'.attempts[i] = decided'[Len(decided') - Len(policy'.attempts) + i]
      <4> TAKE i \in 1 .. Len(policy'.attempts)
      <4>1. i \in 1 .. Len(kept) + 1
        BY ZenonT(40), <2>3
      <4>2. Len(decided') - Len(policy'.attempts) + i = Len(decided) + 1 - (Len(kept) + 1) + i
        BY <2>2, <2>3
      <4>3. policy'.attempts[i] = decided'[Len(decided) + 1 - (Len(kept) + 1) + i]
        BY <3>2, <4>1
      <4> QED BY <4>2, <4>3, Zenon
    <3>4. Len(policy'.attempts) <= Len(decided')
      BY <2>2, <2>3, <3>1, Zenon
    <3> QED BY <3>3, <3>4, Zenon DEF Remembered
  <2>7. Forgotten'
    <3>1. Len(decided) + 1 - (Len(kept) + 1) = Len(decided) - Len(kept)
      BY <1>e, <2>3
    <3>2. ASSUME Limited, NEW i \in 1 .. Len(decided) - Len(kept)
          PROVE  at - decided'[i] >= config.window
      <4>1. i \in 1 .. Len(decided)
        BY <1>e, <2>3
      <4> QED BY ZenonT(40), <1>7, <2>2, <3>2, <4>1
    <3>3. Limited' = Limited /\ config'.window = config.window /\ latest'.at = at
      BY <2>1 DEF Limited
    <3>4. Limited' => \A i \in 1 .. Len(decided') - Len(policy'.attempts) :
                        latest'.at - decided'[i] >= config'.window
      <4> SUFFICES ASSUME Limited, NEW i \in 1 .. Len(decided') - Len(policy'.attempts)
                   PROVE  latest'.at - decided'[i] >= config'.window
        BY <3>3
      <4>1. i \in 1 .. Len(decided) - Len(kept)
        BY <2>2, <2>3, <3>1
      <4> QED BY <3>2, <3>3, <4>1
    <3> QED BY <3>4, Zenon DEF Forgotten
  <2>8. RestartsBounded'
    <3> SUFFICES ASSUME Limited, NEW i \in 1 .. Len(decided) + 1,
                        i + config.max_attempts \in 1 .. Len(decided) + 1
                 PROVE  decided'[i + config.max_attempts] - decided'[i] >= config.window
      BY ZenonT(40), <2>2 DEF RestartsBounded, Limited
    <3>1. config.max_attempts > 0 /\ Len(kept) < config.max_attempts
      BY <1>a, <1>9, <2>3 DEF Limited
    <3>2. CASE i + config.max_attempts = Len(decided) + 1
      <4>1. i \in 1 .. (Len(decided) - Len(kept)) /\ i \in 1 .. Len(decided)
        BY SMTT(40), SMTT(41), <1>a, <1>e, <2>3, <3>1, <3>2
      <4> QED BY ZenonT(40), <1>7, <2>2, <3>2, <4>1
    <3>3. CASE i + config.max_attempts # Len(decided) + 1
      <4>1. i \in 1 .. Len(decided) /\ i + config.max_attempts \in 1 .. Len(decided)
        BY SMTT(40), SMTT(41), <1>a, <1>e, <3>1, <3>3
      <4> QED BY ZenonT(40), <1>b, <2>2, <4>1 DEF RestartsBounded
    <3> QED BY <3>2, <3>3
  <2> QED BY <2>1, <2>4, <2>5, <2>6, <2>7, <2>8
<1> QED BY <1>8, <1>9

-----------------------------------------------------------------------------
(* What a step does to the history *)

\* The sequences of the history, as functions.
LEMMA HistoryType ==
  ASSUME TypeOK
  PROVE  /\ decided \in Seq(Nat) /\ Len(decided) \in Nat /\ DOMAIN decided = 1 .. Len(decided)
         /\ relaunched \in Seq(Nat) /\ Len(relaunched) \in Nat
         /\ DOMAIN relaunched = 1 .. Len(relaunched)
         /\ \A i \in 1 .. Len(decided) : decided[i] \in Nat
         /\ \A i \in 1 .. Len(relaunched) : relaunched[i] \in Nat
<1>1. decided \in Seq(Nat) /\ relaunched \in Seq(Nat)
  BY DEF TypeOK
<1>2. /\ Len(decided) \in Nat /\ DOMAIN decided = 1 .. Len(decided)
      /\ \A i \in 1 .. Len(decided) : decided[i] \in Nat
  BY <1>1, LenProperties
<1>3. /\ Len(relaunched) \in Nat /\ DOMAIN relaunched = 1 .. Len(relaunched)
      /\ \A i \in 1 .. Len(relaunched) : relaunched[i] \in Nat
  BY <1>1, LenProperties
<1> QED
  BY <1>1, <1>2, <1>3

\* A step that leaves policy and history alone.
LEMMA QuietStep ==
  ASSUME IInv, TypeOK',
         UNCHANGED <<config, policy, pending, decided, latest, launched, relaunched>>,
         now <= now',
         PlanAhead' => PlanAhead,
         Has_process' \/ task'.kind # "none" => Has_process \/ task.kind # "none" \/ ~pending,
         Has_process' \/ task'.kind # "none" => Len(relaunched) = Len(decided),
         TaskStamp', TaskState',
         pending => root' = "gone" /\ task'.kind = "none"
  PROVE  IInv'
<1>1. Remembered'
  BY ZenonT(40) DEF IInv, Remembered
<1>2. Forgotten' /\ RestartsBounded'
  BY DEF IInv, Forgotten, RestartsBounded, Limited
<1>3. Past'
  <2>1. /\ now \in Nat /\ now' \in Nat /\ latest.at \in Nat /\ launched \in Nat
        /\ \A i \in DOMAIN relaunched : relaunched[i] \in Nat
    BY ZenonT(40), HistoryType DEF IInv, TypeOK
  <2> QED BY <2>1 DEF IInv, Past
<1>4. BeforeLaunch'
  BY DEF IInv, BeforeLaunch
<1>5. Paired'
  BY DEF IInv, Paired, Has_process
<1> QED BY <1>1, <1>2, <1>3, <1>4, <1>5 DEF IInv

\* A step that resets the policy.
LEMMA ResetStep ==
  ASSUME IInv, TypeOK', reset_restart_policy, UNCHANGED <<config, now>>,
         launched' <= now, TaskStamp', TaskState'
  PROVE  IInv'
<1>1. /\ decided' = <<>> /\ relaunched' = <<>> /\ policy'.attempts = <<>>
      /\ pending' = FALSE /\ latest' = latest
  BY DEF reset_restart_policy, NewPolicy
<1>2. Remembered' /\ Forgotten' /\ RestartsBounded' /\ BeforeLaunch'
  BY <1>1 DEF Remembered, Forgotten, RestartsBounded, BeforeLaunch
<1>3. Past' /\ Paired'
  BY <1>1 DEF IInv, Past, Paired
<1> QED BY <1>2, <1>3 DEF IInv

\* A step that plans a restart for a generation that is over.
LEMMA PlannedStep ==
  ASSUME IInv, TypeOK', NEW at \in Nat, NEW life \in Int,
         plan_automatic_restart(at, life),
         PlanAhead, latest.at <= at, at <= now, launched <= at, life = at - launched,
         UNCHANGED <<config, now, launched, relaunched>>,
         root' = "gone", task'.kind = "none"
  PROVE  IInv'
<1>1. \A i \in DOMAIN decided : decided[i] <= launched
  BY DEF IInv, BeforeLaunch
<1>2. \A i \in DOMAIN relaunched : relaunched[i] <= launched
  BY DEF IInv, BeforeLaunch
<1>3. /\ latest' = [at |-> at, when |-> now]
      /\ decided' = IF pending' THEN Append(decided, at) ELSE decided
      /\ Remembered' /\ Forgotten' /\ RestartsBounded'
  BY <1>1, PlanStep DEF IInv
<1>4. Len(relaunched) = Len(decided)
  BY DEF IInv, Paired, PlanAhead
<1>5. /\ Len(decided) \in Nat /\ DOMAIN decided = 1 .. Len(decided) /\ decided \in Seq(Nat)
      /\ DOMAIN relaunched = 1 .. Len(relaunched)
  BY HistoryType DEF IInv
<1>6. /\ launched \in Nat /\ now \in Nat /\ pending' \in BOOLEAN
      /\ \A i \in 1 .. Len(decided) : decided[i] \in Nat
      /\ \A i \in 1 .. Len(relaunched) : relaunched[i] \in Nat
  BY HistoryType DEF IInv, TypeOK
<1>7. TaskStamp' /\ TaskState' /\ BeforeLaunch'
  BY DEF TaskStamp, TaskState, BeforeLaunch, PlanAhead, Has_process
<1>8. CASE pending'
  <2>1. /\ Len(decided') = Len(decided) + 1 /\ DOMAIN decided' = 1 .. Len(decided) + 1
        /\ \A i \in 1 .. Len(decided) : decided'[i] = decided[i]
        /\ decided'[Len(decided) + 1] = at
    BY <1>3, <1>5, <1>8
  <2>2. Past'
    <3>1. latest'.at <= now' /\ launched' <= now'
      BY <1>3 DEF IInv, Past
    <3>2. \A i \in DOMAIN decided' : decided'[i] <= latest'.at
      <4> TAKE i \in DOMAIN decided'
      <4>1. CASE i = Len(decided) + 1
        BY <1>3, <2>1, <4>1
      <4>2. CASE i # Len(decided) + 1
        <5>1. i \in 1 .. Len(decided)
          BY <1>5, <2>1, <4>2
        <5>2. decided[i] <= launched /\ decided[i] \in Nat
          BY <1>1, <1>5, <1>6, <5>1
        <5> QED BY <1>3, <1>6, <2>1, <5>1, <5>2
      <4> QED BY <4>1, <4>2
    <3>3. \A i \in DOMAIN relaunched' : relaunched'[i] <= now'
      BY DEF IInv, Past
    <3> QED BY <3>1, <3>2, <3>3 DEF Past
  <2>3. Paired'
    <3>1. Len(decided') = Len(relaunched') + 1 /\ Len(relaunched') <= Len(decided')
      BY <1>4, <1>5, <2>1
    <3>2. \A i \in 1 .. Len(relaunched') : decided'[i] <= relaunched'[i]
      BY <1>4, <2>1 DEF IInv, Paired
    <3>3. \A i \in 1 .. Len(relaunched') : i + 1 <= Len(decided') => relaunched'[i] <= decided'[i + 1]
      <4> TAKE i \in 1 .. Len(relaunched')
      <4>1. CASE i = Len(decided)
        <5>1. relaunched[i] <= launched /\ relaunched[i] \in Nat
          BY ZenonT(40), <1>2, <1>5, <1>6
        <5> QED BY <1>6, <2>1, <4>1, <5>1
      <4>2. CASE i # Len(decided)
        <5>0. i \in 1 .. Len(decided) /\ i \in 1 .. Len(relaunched)
          BY <1>4
        <5>1. i + 1 \in 1 .. Len(decided) /\ i + 1 <= Len(decided)
          <6>1. Len(decided) \in Nat
            BY <1>5
          <6> QED BY <4>2, <5>0, <6>1
        <5>2. relaunched[i] <= decided[i + 1]
          BY <5>0, <5>1 DEF IInv, Paired
        <5> QED BY <2>1, <5>1, <5>2
      <4> QED BY <4>1, <4>2
    <3> QED BY <3>1, <3>2, <3>3 DEF Paired, Has_process
  <2> QED BY <1>3, <1>7, <2>2, <2>3 DEF IInv
<1>9. CASE ~pending'
  <2>1. decided' = decided
    BY <1>3, <1>9
  <2>2. Past'
    <3>1. latest'.at <= now' /\ launched' <= now' /\ latest'.at = at
      BY <1>3 DEF IInv, Past
    <3>2. \A i \in DOMAIN decided : decided[i] <= at
      BY <1>1, <1>5, <1>6
    <3> QED BY <2>1, <3>1, <3>2 DEF IInv, Past
  <2>3. Paired'
    BY <1>4, <1>9, <2>1 DEF IInv, Paired, Has_process
  <2> QED BY <1>3, <1>7, <2>2, <2>3 DEF IInv
<1> QED BY <1>8, <1>9

\* The planned restart is carried out, or fails.
LEMMA LaunchStep ==
  ASSUME IInv, TypeOK', RestartPlanned, pending' = FALSE, task'.kind = "none",
         UNCHANGED <<config, now, policy, decided, latest>>,
         \/ root' = "gone" /\ UNCHANGED <<launched, relaunched>>
         \/ launched' = now /\ relaunched' = Append(relaunched, now)
  PROVE  IInv'
<1>1. /\ Len(decided) \in Nat /\ DOMAIN decided = 1 .. Len(decided)
      /\ DOMAIN relaunched = 1 .. Len(relaunched) /\ relaunched \in Seq(Nat) /\ Len(relaunched) \in Nat
      /\ \A i \in 1 .. Len(decided) : decided[i] \in Nat
      /\ \A i \in 1 .. Len(relaunched) : relaunched[i] \in Nat
  BY HistoryType DEF IInv
<1>2. now \in Nat /\ latest.at \in Nat /\ latest.at <= now /\ launched <= now
  BY SMTT(40) DEF IInv, TypeOK, Past
<1>3. Remembered' /\ Forgotten' /\ RestartsBounded'
  BY ZenonT(40) DEF IInv, Remembered, Forgotten, RestartsBounded, Limited
<1>4. TaskStamp' /\ TaskState'
  BY DEF TaskStamp, TaskState
<1>5. \A i \in DOMAIN decided : decided[i] <= now
  <2>1. \A i \in DOMAIN decided : decided[i] <= latest.at
    BY DEF IInv, Past
  <2> QED BY <1>1, <1>2, <2>1
<1>6. CASE root' = "gone" /\ UNCHANGED <<launched, relaunched>>
  BY <1>3, <1>4, <1>6 DEF IInv, Past, BeforeLaunch, PlanAhead, Paired, Has_process
<1>7. CASE launched' = now /\ relaunched' = Append(relaunched, now)
  <2>1. Len(decided) = Len(relaunched) + 1
    BY DEF IInv, Paired, RestartPlanned
  <2>2. /\ Len(relaunched') = Len(decided) /\ DOMAIN relaunched' = 1 .. Len(decided)
        /\ \A i \in 1 .. Len(relaunched) : relaunched'[i] = relaunched[i]
        /\ relaunched'[Len(decided)] = now
    BY <1>1, <1>2, <1>7, <2>1
  <2>3. \A i \in DOMAIN relaunched' : relaunched'[i] <= now
    <3> TAKE i \in DOMAIN relaunched'
    <3>1. CASE i = Len(decided)
      <4>1. relaunched'[i] = now
        BY ZenonT(40), <2>2, <3>1
      <4> QED BY SMTT(40), <1>2, <4>1
    <3>2. CASE i # Len(decided)
      <4>1. i \in 1 .. Len(relaunched)
        BY <1>1, <2>1, <2>2, <3>2
      <4>2. relaunched[i] <= now
        BY <1>1, <4>1 DEF IInv, Past
      <4> QED BY ZenonT(40), <2>2, <4>1, <4>2
    <3> QED BY <3>1, <3>2
  <2>4. Past' /\ BeforeLaunch'
    BY <1>2, <1>5, <1>7, <2>3 DEF IInv, Past, BeforeLaunch
  <2>5. Paired'
    <3>1. \A i \in 1 .. Len(relaunched') : decided'[i] <= relaunched'[i]
      <4> TAKE i \in 1 .. Len(relaunched')
      <4>1. CASE i = Len(decided)
        BY ZenonT(40), <1>1, <1>5, <2>2, <4>1
      <4>2. CASE i # Len(decided)
        <5>1. i \in 1 .. Len(relaunched)
          BY SMTT(40), <1>1, <2>1, <2>2, <4>2
        <5> QED BY ZenonT(40), <2>2, <5>1 DEF IInv, Paired
      <4> QED BY <4>1, <4>2
    <3>2. \A i \in 1 .. Len(relaunched') : i + 1 <= Len(decided') => relaunched'[i] <= decided'[i + 1]
      <4> SUFFICES ASSUME NEW i \in 1 .. Len(relaunched'), i + 1 <= Len(decided')
                   PROVE  relaunched'[i] <= decided'[i + 1]
        OBVIOUS
      <4>1. i \in 1 .. Len(relaunched) /\ i + 1 <= Len(decided)
        BY <1>1, <2>1, <2>2
      <4> QED BY ZenonT(40), <2>2, <4>1 DEF IInv, Paired
    <3>3. Len(relaunched') = Len(decided') /\ Len(relaunched') <= Len(decided')
      <4>1. Len(decided) \in Nat
        BY SMTT(40), <1>1
      <4>2. Len(relaunched') = Len(decided) /\ decided' = decided
        BY ZenonT(40), <2>2
      <4> QED BY <4>1, <4>2
    <3> QED BY <3>1, <3>2, <3>3 DEF Paired
  <2> QED BY <1>3, <1>4, <2>4, <2>5 DEF IInv
<1> QED BY <1>6, <1>7

-----------------------------------------------------------------------------
(* Types *)

JobType == Jobs({0, Gen}, Nat, Nat)

TaskType == [kind : {"none", "stop", "restart", "auto", "timeout"}, at : Nat, life : Int]

\* The operations of the termination job stay within its type.
LEMMA JobOps ==
  ASSUME NEW j \in JobType, NEW t \in Nat, NEW timeout \in Nat, NEW e \in BOOLEAN
  PROVE  /\ request(j, Gen, t, timeout).job \in JobType
         /\ mark_tree_draining(j, Gen, t, timeout).job \in JobType
         /\ poll(j, Gen, t, e).job \in JobType
         /\ force(j, Gen).job \in JobType
         /\ NewJob \in JobType
<1> USE DEF JobType, Jobs, Phases, Gen, Result
<1>1. request(j, Gen, t, timeout).job \in JobType
  BY DEF request
<1>2. mark_tree_draining(j, Gen, t, timeout).job \in JobType
  BY ZenonT(40) DEF mark_tree_draining
<1>3. poll(j, Gen, t, e).job \in JobType
  BY DEF poll
<1>4. force(j, Gen).job \in JobType
  BY DEF force
<1>5. NewJob \in JobType
  BY DEF NewJob
<1> QED BY <1>1, <1>2, <1>3, <1>4, <1>5

\* The types of what the process side of a step changes.
ProcTypeOK ==
  /\ st \in {"STARTING", "RUNING", "REQUEST_STOP", "STOPED", "WAITING_START", "STARTUP_FAIL"}
  /\ root \in {"alive", "zombie", "gone"} /\ desc \in BOOLEAN
  /\ job \in JobType /\ task \in TaskType /\ stale \in BOOLEAN
  /\ launched \in Nat /\ tick \in Nat /\ action_due \in Int

\* Those of the policy and the history.
PolicyTypeOK ==
  /\ policy \in [attempts : Seq(Nat), failures : Nat, suppressed : BOOLEAN]
  /\ pending \in BOOLEAN /\ due \in Int
  /\ decided \in Seq(Nat) /\ relaunched \in Seq(Nat)
  /\ latest \in [at : Nat, when : Nat]

ClockTypeOK ==
  /\ config \in Configs /\ now \in Nat /\ wake \in Nat
  /\ pc \in {"idle", "plan", "poll", "arm"}

\* TypeOK in three parts.
LEMMA TypeParts == TypeOK <=> ClockTypeOK /\ ProcTypeOK /\ PolicyTypeOK
  BY DEF TypeOK, ClockTypeOK, ProcTypeOK, PolicyTypeOK, JobType, TaskType

\* The same of the next state.
LEMMA TypePartsNext == TypeOK' <=> ClockTypeOK' /\ ProcTypeOK' /\ PolicyTypeOK'
  BY TypeParts, PTL

\* Nothing changed keeps its type.
LEMMA ProcSame ==
  ASSUME ProcTypeOK, UNCHANGED <<proc_vars, stamp_vars>>
  PROVE  ProcTypeOK'
  BY DEF ProcTypeOK, proc_vars, stamp_vars

\* A policy that is left alone keeps its type.
LEMMA PolicySame ==
  ASSUME PolicyTypeOK, UNCHANGED <<policy_vars, relaunched>>
  PROVE  PolicyTypeOK'
  BY DEF PolicyTypeOK, policy_vars

\* A reset policy has its type.
LEMMA PolicyReset ==
  ASSUME PolicyTypeOK, reset_restart_policy
  PROVE  PolicyTypeOK'
<1>1. pending' \in BOOLEAN
  BY Zenon DEF reset_restart_policy
<1>2. policy' \in [attempts : Seq(Nat), failures : Nat, suppressed : BOOLEAN]
  BY DEF reset_restart_policy, NewPolicy
<1>3. due' \in Int /\ decided' \in Seq(Nat) /\ relaunched' \in Seq(Nat) /\ latest' = latest
  BY DEF reset_restart_policy
<1> QED BY <1>1, <1>2, <1>3 DEF PolicyTypeOK

\* A launch keeps the types and leaves a process only with a fresh task.
LEMMA LaunchType ==
  ASSUME TypeOK, NEW o \in Outcomes, NEW base, NEW failed, NEW clears \in BOOLEAN, NEW j \in JobType,
         base \in {"STARTING", "RUNING", "REQUEST_STOP", "STOPED", "WAITING_START", "STARTUP_FAIL"},
         failed \in {"STARTING", "RUNING", "REQUEST_STOP", "STOPED", "WAITING_START", "STARTUP_FAIL"},
         Launch(o, base, failed, clears, j)
  PROVE  /\ ProcTypeOK'
         /\ (root' = "gone" /\ launched' = launched) \/ (o = "ok" /\ launched' = now /\ task' = NoTask)
         /\ task' = NoTask \/ task' = task
         /\ clears => task' = NoTask
<1>1. desc' \in BOOLEAN /\ stale' \in BOOLEAN
  BY Zenon DEF Launch
<1>2. st' \in {"STARTING", "RUNING", "REQUEST_STOP", "STOPED", "WAITING_START", "STARTUP_FAIL"}
  BY DEF Launch
<1>3. root' \in {"alive", "zombie", "gone"}
  BY DEF Launch
<1>4. job' \in JobType
  BY JobOps DEF Launch
<1>5. NoTask \in TaskType
  BY DEF NoTask, TaskType
<1>6. task' \in TaskType
  BY <1>5 DEF Launch, TypeOK, TaskType
<1>7. launched' \in Nat /\ tick' \in Nat /\ action_due' \in Int
  BY DEF Launch, TypeOK
<1>8. ProcTypeOK'
  BY <1>1, <1>2, <1>3, <1>4, <1>6, <1>7 DEF ProcTypeOK
<1>9. /\ (root' = "gone" /\ launched' = launched) \/ (o = "ok" /\ launched' = now /\ task' = NoTask)
      /\ task' = NoTask \/ task' = task
      /\ clears => task' = NoTask
  <2>1. task' = IF o \in {"ok", "late"} \/ clears THEN NoTask ELSE task
    BY Zenon DEF Launch
  <2>2. /\ root' = IF o = "ok" THEN "alive" ELSE "gone"
        /\ launched' = IF o = "ok" THEN now ELSE launched
    BY Zenon DEF Launch
  <2>3. clears => task' = NoTask
    BY <2>1, Zenon
  <2>4. task' = NoTask \/ task' = task
    BY <2>1, Zenon
  <2>5. o = "ok" => task' = NoTask
    BY <2>1
  <2>6. (root' = "gone" /\ launched' = launched) \/ (o = "ok" /\ launched' = now /\ task' = NoTask)
    BY <2>2, <2>5
  <2> QED BY <2>3, <2>4, <2>6, Zenon
<1> QED BY <1>8, <1>9

-----------------------------------------------------------------------------
(* The invariant *)

\* The daemon starts with a program just launched and an empty history.
LEMMA InitIInv == Init => IInv
<1> SUFFICES ASSUME Init PROVE IInv
  OBVIOUS
<1>1. ClockTypeOK
  BY DEF Init, ClockTypeOK
<1>2. ProcTypeOK
  <2>1. desc \in BOOLEAN /\ stale \in BOOLEAN
    BY Zenon DEF Init
  <2>2. job \in JobType
    BY DEF Init, JobType, Jobs, NewJob, Phases, Gen
  <2>3. task \in TaskType
    BY DEF Init, NoTask, TaskType
  <2> QED BY <2>1, <2>2, <2>3 DEF Init, ProcTypeOK
<1>3. PolicyTypeOK
  <2>1. pending \in BOOLEAN
    BY Zenon DEF Init
  <2> QED BY <2>1 DEF Init, PolicyTypeOK, NewPolicy
<1>4. Remembered /\ Forgotten /\ Past /\ BeforeLaunch /\ RestartsBounded
  BY DEF Init, NewPolicy, Remembered, Forgotten, Past, BeforeLaunch, RestartsBounded
<1>5. TaskStamp /\ TaskState /\ Paired
  BY DEF Init, NoTask, TaskStamp, TaskState, Paired
<1> QED BY <1>1, <1>2, <1>3, <1>4, <1>5, TypeParts DEF IInv

\* A call of plan_automatic_restart keeps the types.
LEMMA PlanType ==
  ASSUME IInv, NEW at \in Nat, NEW life \in Int, plan_automatic_restart(at, life),
         PlanAhead, latest.at <= at, life = at - launched, config' = config,
         relaunched' = relaunched
  PROVE  PolicyTypeOK'
<1>1. \A i \in DOMAIN decided : decided[i] <= launched
  BY SMTT(40) DEF IInv, BeforeLaunch
<1>2. /\ policy' \in [attempts : Seq(Nat), failures : Nat, suppressed : BOOLEAN]
      /\ pending' \in BOOLEAN /\ due' \in Int
      /\ latest' = [at |-> at, when |-> now]
      /\ decided' = IF pending' THEN Append(decided, at) ELSE decided
  BY SMTT(40), <1>1, PlanStep DEF IInv
<1>3. decided' \in Seq(Nat) /\ relaunched' \in Seq(Nat) /\ latest' \in [at : Nat, when : Nat]
  BY <1>2 DEF IInv, TypeOK
<1> QED BY <1>2, <1>3 DEF PolicyTypeOK

\* The end of a termination: its task is run by execute_penddingtasks.
LEMMA TaskRun ==
  ASSUME IInv, NEW base, NEW j \in JobType, execute_penddingtasks(base, j),
         base \in {"REQUEST_STOP", "STOPED"}, ClockTypeOK', UNCHANGED <<config, now>>
  PROVE  IInv'
<1>0. /\ TypeOK /\ ProcTypeOK /\ PolicyTypeOK /\ now \in Nat /\ launched \in Nat /\ task \in TaskType
      /\ latest.at \in Nat /\ latest.at <= now /\ launched <= now
  BY TypeParts DEF IInv, TypeOK, TaskType, Past
<1>1. NoTask \in TaskType /\ NoTask.kind = "none"
  BY DEF NoTask, TaskType
<1>2. ASSUME NEW state \in {"REQUEST_STOP", "STOPED", "WAITING_START", "STARTUP_FAIL"},
             TasksDone(state, j)
      PROVE  /\ ProcTypeOK' /\ root' = "gone" /\ task'.kind = "none" /\ launched' = launched
             /\ ~PlanAhead' /\ ~Has_process' /\ TaskStamp' /\ TaskState'
  <2>1. stale' \in BOOLEAN
    BY <1>2, Zenon DEF TasksDone
  <2>2. ProcTypeOK'
    BY <1>0, <1>1, <1>2, <2>1 DEF TasksDone, ProcTypeOK, stamp_vars
  <2>3. root' = "gone" /\ task'.kind = "none" /\ launched' = launched
    BY <1>1, <1>2 DEF TasksDone, stamp_vars
  <2> QED BY <2>2, <2>3 DEF PlanAhead, Has_process, TaskStamp, TaskState
<1>3. CASE task.kind \in {"none", "stop"}
  <2>1. TasksDone(base, j) /\ UNCHANGED <<policy_vars, relaunched>>
    BY ZenonT(40), <1>3 DEF execute_penddingtasks
  <2>2. TypeOK'
    BY <1>0, <1>2, <2>1, PolicySame, TypePartsNext
  <2> QED BY <1>0, <1>2, <2>1, <2>2, QuietStep DEF policy_vars
<1>4. CASE task.kind = "restart"
  <2>1. PICK o \in Outcomes : Launch(o, base, base, TRUE, j) /\ UNCHANGED <<policy_vars, relaunched>>
    BY ZenonT(40), <1>4 DEF execute_penddingtasks
  <2>2. /\ ProcTypeOK' /\ task' = NoTask
        /\ (root' = "gone" /\ launched' = launched) \/ launched' = now
    BY ZenonT(40), <1>0, <2>1, LaunchType
  <2>3. TypeOK'
    BY <1>0, <2>1, <2>2, PolicySame, TypePartsNext
  <2>4. Len(relaunched) = Len(decided) /\ ~pending
    BY <1>4 DEF IInv, Paired
  <2>5. TaskStamp' /\ TaskState'
    BY <1>1, <2>2 DEF TaskStamp, TaskState
  <2>6. \A i \in DOMAIN decided : decided[i] <= now
    <3>1. \A i \in DOMAIN decided : decided[i] <= latest.at /\ decided[i] \in Nat
      BY SMTT(40), <1>0, HistoryType DEF IInv, Past
    <3> QED BY <1>0, <3>1
  <2>7. Remembered' /\ Forgotten' /\ RestartsBounded'
    BY ZenonT(40), <2>1 DEF IInv, Remembered, Forgotten, RestartsBounded, Limited, policy_vars
  <2>9. launched' <= now
    BY <1>0, <2>2
  <2>10. Past'
    BY <1>0, <2>1, <2>9 DEF IInv, Past, policy_vars
  <2>11. Paired'
    BY <2>1, <2>4 DEF IInv, Paired, policy_vars
  <2>8. BeforeLaunch'
    BY <1>1, <2>1, <2>2, <2>6 DEF IInv, BeforeLaunch, PlanAhead, Has_process, Past, policy_vars
  <2> QED BY <2>3, <2>5, <2>7, <2>8, <2>10, <2>11 DEF IInv
<1>5. CASE task.kind = "auto"
  <2>1. /\ plan_automatic_restart(task.at, task.life) /\ relaunched' = relaunched
        /\ TasksDone(IF pending' THEN "WAITING_START" ELSE "STOPED", j)
    BY <1>5 DEF execute_penddingtasks
  <2>2. /\ task.at \in Nat /\ task.life \in Int /\ latest.at <= task.at /\ task.at <= now
        /\ launched <= task.at /\ task.life = task.at - launched /\ PlanAhead
    BY <1>0, <1>5 DEF IInv, TaskStamp, PlanAhead, TaskType
  <2>3. /\ ProcTypeOK' /\ root' = "gone" /\ task'.kind = "none" /\ launched' = launched
    BY <1>2, <2>1
  <2>4. TypeOK'
    BY ZenonT(40), <2>1, <2>2, <2>3, PlanType, TypePartsNext
  <2> QED BY <2>1, <2>2, <2>3, <2>4, PlannedStep
<1>6. CASE task.kind = "timeout"
  <2>1. /\ plan_automatic_restart(now, now - launched) /\ relaunched' = relaunched
        /\ TasksDone(IF pending' THEN "WAITING_START" ELSE "STARTUP_FAIL", j)
    BY <1>6 DEF execute_penddingtasks
  <2>2. PlanAhead /\ now - launched \in Int
    BY <1>0, <1>6 DEF PlanAhead
  <2>3. /\ ProcTypeOK' /\ root' = "gone" /\ task'.kind = "none" /\ launched' = launched
    BY <1>2, <2>1
  <2>4. TypeOK'
    BY <1>0, <2>1, <2>2, <2>3, PlanType, TypePartsNext
  <2> QED BY <1>0, <2>1, <2>2, <2>3, <2>4, PlannedStep
<1> QED BY ZenonT(40), <1>0, <1>3, <1>4, <1>5, <1>6 DEF TaskType

-----------------------------------------------------------------------------
(* One lemma per kind of step *)

\* Commands take no time.
LEMMA ClockSame ==
  ASSUME ClockTypeOK, UNCHANGED <<config, now, wake>>,
         pc' \in {"idle", "plan", "poll", "arm"}
  PROVE  ClockTypeOK'
  BY DEF ClockTypeOK

\* async_kill_prog keeps the types.
LEMMA KillType ==
  ASSUME TypeOK, NEW kind \in {"stop", "restart", "timeout"}, async_kill_prog(kind)
  PROVE  /\ job' \in JobType /\ task' \in TaskType /\ task'.kind = kind
         /\ st' = "REQUEST_STOP" /\ UNCHANGED <<root, desc, stale>>
<1>1. job \in JobType /\ now \in Nat /\ config.kill_timeout \in Nat
  BY SMTT(40), ConfigType DEF TypeOK, JobType
<1>2. job' \in JobType
  BY ZenonT(40), <1>1, JobOps DEF async_kill_prog
<1>3. task' \in TaskType /\ task'.kind = kind
  BY DEF async_kill_prog, Task, NoTask, TaskType
<1> QED BY <1>2, <1>3 DEF async_kill_prog

\* cmd_stop
LEMMA StopStep == ASSUME IInv, Stop PROVE IInv'
<1>0. TypeOK /\ ClockTypeOK /\ ProcTypeOK /\ PolicyTypeOK
  BY TypeParts DEF IInv
<1>1. /\ UNCHANGED <<config, now, wake, pc, launched, tick, action_due>>
      /\ reset_restart_policy /\ task = NoTask
  BY DEF Stop, Command, clock_vars, stamp_vars
<1>2. /\ ProcTypeOK' /\ task'.kind \in {"none", "stop"}
      /\ Has_process' /\ task'.kind # "none" => st' = "REQUEST_STOP"
  <2>1. CASE Has_process
    <3>1. async_kill_prog("stop")
      BY <2>1 DEF Stop
    <3> QED BY <1>0, <1>1, <3>1, KillType DEF ProcTypeOK
  <2>2. CASE ~Has_process
    <3>1. st' = "STOPED" /\ UNCHANGED <<root, desc, job, task, stale>>
      BY <2>2 DEF Stop
    <3> QED BY <1>0, <1>1, <3>1 DEF ProcTypeOK, NoTask
  <2> QED BY <2>1, <2>2
<1>3. TypeOK'
  BY ZenonT(40), <1>0, <1>1, <1>2, ClockSame, PolicyReset, TypePartsNext DEF ClockTypeOK
<1>4. TaskStamp' /\ TaskState' /\ launched' <= now
  BY <1>1, <1>2 DEF TaskStamp, TaskState, IInv, Past
<1> QED BY <1>1, <1>3, <1>4, ResetStep

\* The launch of a command that has reset the policy.
LEMMA CommandLaunch ==
  ASSUME IInv, reset_restart_policy, UNCHANGED <<config, now, wake, pc>>,
         NEW o \in Outcomes, NEW failed \in {st, "STARTUP_FAIL"}, Launch(o, st, failed, FALSE, job)
  PROVE  IInv'
<1>0. TypeOK /\ ClockTypeOK /\ ProcTypeOK /\ PolicyTypeOK
  BY TypeParts DEF IInv
<1>1. /\ ProcTypeOK'
      /\ (root' = "gone" /\ launched' = launched) \/ (launched' = now /\ task' = NoTask)
      /\ task' = NoTask \/ task' = task
  BY ZenonT(40), <1>0, LaunchType DEF ProcTypeOK
<1>2. NoTask.kind = "none"
  BY DEF NoTask
<1>3. TypeOK'
  BY <1>0, <1>1, ClockSame, PolicyReset, TypePartsNext DEF ClockTypeOK
<1>4. TaskStamp' /\ TaskState'
  BY ZenonT(40), <1>1, <1>2 DEF TaskStamp, TaskState, IInv, Has_process, reset_restart_policy
<1>5. launched' <= now
  BY SMTT(40), SMTT(41), <1>0, <1>1 DEF IInv, Past, TypeOK
<1> QED BY <1>3, <1>4, <1>5, ResetStep

\* cmd_restart
LEMMA RestartStep == ASSUME IInv, Restart PROVE IInv'
<1>0. TypeOK /\ ClockTypeOK /\ ProcTypeOK /\ PolicyTypeOK
  BY TypeParts DEF IInv
<1>1. UNCHANGED <<config, now, wake, pc>> /\ reset_restart_policy
  BY DEF Restart, Command, clock_vars
<1>2. CASE task # NoTask \/ stale
  <2>1. UNCHANGED <<proc_vars, stamp_vars>>
    BY ZenonT(40), <1>2 DEF Restart
  <2>2. TypeOK'
    BY ZenonT(40), <1>0, <1>1, <2>1, ClockSame, PolicyReset, ProcSame, TypePartsNext DEF ClockTypeOK
  <2>3. TaskStamp' /\ TaskState' /\ launched' <= now
    BY ZenonT(40), <1>1, <2>1 DEF TaskStamp, TaskState, Has_process, IInv, Past, proc_vars, stamp_vars,
                      reset_restart_policy
  <2> QED BY <1>1, <2>2, <2>3, ResetStep
<1>3. CASE ~(task # NoTask \/ stale) /\ Has_process
  <2>1. async_kill_prog("restart") /\ UNCHANGED <<launched, tick, action_due>>
    BY <1>3 DEF Restart, stamp_vars
  <2>2. ProcTypeOK' /\ task'.kind = "restart" /\ st' = "REQUEST_STOP"
    BY <1>0, <2>1, KillType DEF ProcTypeOK
  <2>3. TypeOK'
    BY ZenonT(40), <1>0, <1>1, <2>2, ClockSame, PolicyReset, TypePartsNext DEF ClockTypeOK
  <2>4. TaskStamp' /\ TaskState' /\ launched' <= now
    BY <2>1, <2>2 DEF TaskStamp, TaskState, IInv, Past
  <2> QED BY <1>1, <2>3, <2>4, ResetStep
<1>4. CASE ~(task # NoTask \/ stale) /\ ~Has_process
  <2>1. PICK o \in Outcomes : Launch(o, st, st, FALSE, job)
    BY ZenonT(40), <1>4 DEF Restart
  <2> QED BY ZenonT(40), <1>1, <2>1, CommandLaunch
<1> QED BY <1>2, <1>3, <1>4

\* cmd_start
LEMMA StartStep == ASSUME IInv, Start PROVE IInv'
<1>1. UNCHANGED <<config, now, wake, pc>> /\ reset_restart_policy
  BY DEF Start, Command, clock_vars
<1>2. PICK o \in Outcomes : Launch(o, st, "STARTUP_FAIL", FALSE, job)
  BY ZenonT(40) DEF Start
<1> QED BY ZenonT(40), <1>1, <1>2, CommandLaunch

\* app_ready and app_tick
LEMMA HeartbeatStep ==
  ASSUME IInv, NEW state \in {"STARTING", "RUNING"}, Heartbeat(state) PROVE IInv'
<1>0. TypeOK /\ ClockTypeOK /\ ProcTypeOK /\ PolicyTypeOK
  BY TypeParts DEF IInv
<1>1. /\ UNCHANGED <<config, now, wake, pc, root, desc, job, task, stale, launched, policy_vars, relaunched>>
      /\ st' = "RUNING" /\ tick' = now /\ action_due' = 0 /\ Has_process /\ st = state
  BY DEF Heartbeat, Command, clock_vars
<1>2. task.kind = "none" /\ Len(relaunched) = Len(decided) /\ ~pending
  BY <1>1 DEF IInv, TaskState, Paired, Has_process
<1>3. ProcTypeOK'
  BY <1>0, <1>1 DEF ProcTypeOK, ClockTypeOK
<1>4. TypeOK'
  BY ZenonT(40), <1>0, <1>1, <1>3, ClockSame, PolicySame, TypePartsNext DEF ClockTypeOK
<1>5. TaskStamp' /\ TaskState' /\ (PlanAhead' => PlanAhead) /\ now <= now'
  BY SMTT(40), SMTT(41), <1>0, <1>1, <1>2 DEF TaskStamp, TaskState, PlanAhead, Has_process, ClockTypeOK
<1> QED BY <1>1, <1>2, <1>4, <1>5, QuietStep DEF policy_vars

\* A step that leaves the program alone.
LEMMA IdleStep ==
  ASSUME IInv, ClockTypeOK', config' = config, now <= now',
         UNCHANGED <<proc_vars, policy_vars, stamp_vars, relaunched>>
  PROVE  IInv'
<1>0. TypeOK /\ ClockTypeOK /\ ProcTypeOK /\ PolicyTypeOK /\ now \in Nat /\ now' \in Nat
  BY TypeParts DEF IInv, ClockTypeOK
<1>1. TypeOK'
  BY ZenonT(40), <1>0, ProcSame, PolicySame, TypePartsNext
<1>2. task.kind = "auto" => task.at \in Nat /\ task.at <= now
  BY ZenonT(40), <1>0 DEF IInv, TaskStamp, ProcTypeOK, TaskType
<1>3. TaskStamp' /\ TaskState'
  BY SMTT(40), SMTT(41), <1>0, <1>2 DEF IInv, TaskStamp, TaskState, Has_process, proc_vars, stamp_vars, policy_vars
<1>4. /\ UNCHANGED <<policy, pending, decided, latest, launched, relaunched, root, task>>
      /\ Has_process' = Has_process /\ PlanAhead' = PlanAhead
  BY DEF proc_vars, stamp_vars, policy_vars, Has_process, PlanAhead
<1>5. /\ Has_process \/ task.kind # "none" => Len(relaunched) = Len(decided)
      /\ pending => root = "gone" /\ task.kind = "none"
  BY DEF IInv, Paired
<1> QED BY <1>1, <1>3, <1>4, <1>5, QuietStep

\* The root has been waited for.
LEMMA ReapStep == ASSUME IInv, Reap PROVE IInv'
<1>0. /\ TypeOK /\ ClockTypeOK /\ ProcTypeOK /\ PolicyTypeOK /\ now \in Nat /\ launched \in Nat
      /\ latest.at <= now /\ launched <= now
  BY ZenonT(40), TypeParts DEF IInv, ClockTypeOK, ProcTypeOK, Past
<1>1. UNCHANGED <<config, now, wake>> /\ root = "zombie" /\ pc' = "plan"
  BY ZenonT(40) DEF Reap, Pass
<1>2. /\ Has_process /\ PlanAhead /\ task.kind # "auto" /\ ~pending
      /\ Len(relaunched) = Len(decided) /\ ClockTypeOK'
  BY ZenonT(40), <1>0, <1>1, ClockSame DEF Has_process, PlanAhead, IInv, TaskStamp, Paired
<1>3. CASE desc
  <2>1. /\ st' = "REQUEST_STOP" /\ root' = "gone"
        /\ job' = mark_tree_draining(job, Gen, now, config.kill_timeout).job
        /\ task' = IF st = "REQUEST_STOP" THEN task
                   ELSE [kind |-> "auto", at |-> now, life |-> now - launched]
        /\ UNCHANGED <<desc, stale, policy_vars, stamp_vars, relaunched>>
    BY ZenonT(40), <1>3 DEF Reap
  <2>2. job' \in JobType
    BY ZenonT(40), <1>0, <2>1, JobOps, ConfigType DEF ProcTypeOK, ClockTypeOK
  <2>3. task' \in TaskType
    BY SMTT(40), SMTT(41), <1>0, <2>1 DEF ProcTypeOK, TaskType
  <2>4. ProcTypeOK'
    BY ZenonT(40), <1>0, <2>1, <2>2, <2>3 DEF ProcTypeOK, stamp_vars
  <2>5. TypeOK'
    BY ZenonT(40), <1>0, <1>2, <2>1, <2>4, PolicySame, TypePartsNext
  <2>6. TaskStamp' /\ TaskState'
    BY SMTT(40), SMTT(41), <1>0, <1>1, <1>2, <2>1 DEF TaskStamp, TaskState, Has_process, stamp_vars, policy_vars
  <2>7. UNCHANGED <<policy, pending, decided, latest, launched, relaunched>> /\ now <= now'
    BY SMTT(40), SMTT(41), <1>0, <1>1, <2>1 DEF stamp_vars, policy_vars
  <2> QED BY SMTT(40), <1>1, <1>2, <2>5, <2>6, <2>7, QuietStep
<1>4. CASE ~desc /\ st = "REQUEST_STOP"
  <2>1. execute_penddingtasks("STOPED", job)
    BY ZenonT(40), <1>4 DEF Reap
  <2> QED BY ZenonT(40), <1>0, <1>1, <1>2, <2>1, TaskRun DEF ProcTypeOK
<1>5. CASE ~desc /\ st # "REQUEST_STOP"
  <2>1. /\ plan_automatic_restart(now, now - launched)
        /\ st' = IF pending' THEN "WAITING_START" ELSE "STOPED"
        /\ root' = "gone"
        /\ UNCHANGED <<desc, job, task, stale, stamp_vars, relaunched>>
    BY ZenonT(40), <1>5 DEF Reap
  <2>2. ProcTypeOK' /\ launched' = launched
    BY <1>0, <2>1 DEF ProcTypeOK, stamp_vars
  <2>3. now - launched \in Int /\ task'.kind = "none"
    BY SMTT(40), SMTT(41), <1>0, <1>2, <1>5, <2>1 DEF IInv, TaskState
  <2>4. TypeOK'
    BY SMTT(40), <1>0, <1>1, <1>2, <2>1, <2>2, <2>3, PlanType, TypePartsNext
  <2> QED BY SMTT(40), SMTT(41), <1>0, <1>1, <1>2, <2>1, <2>2, <2>3, <2>4, PlannedStep
<1> QED BY ZenonT(40), <1>3, <1>4, <1>5

\* A planned restart that is due is carried out.
LEMMA DueRestartStep == ASSUME IInv, DueRestart PROVE IInv'
<1>0. TypeOK /\ ClockTypeOK /\ ProcTypeOK /\ PolicyTypeOK /\ now \in Nat
  BY TypeParts DEF IInv, ClockTypeOK
<1>1. /\ UNCHANGED <<config, now, wake, policy, decided, latest>> /\ pc' = "poll"
      /\ RestartPlanned /\ pending' = FALSE /\ due' = 0
  BY DEF DueRestart, Pass
<1>2. PICK o \in Outcomes \ {"held"} :
        /\ Launch(o, st, "STARTUP_FAIL", FALSE, job)
        /\ relaunched' = IF o = "ok" THEN Append(relaunched, now) ELSE relaunched
  BY ZenonT(40) DEF DueRestart
<1>3. /\ ProcTypeOK'
      /\ (root' = "gone" /\ launched' = launched) \/ (o = "ok" /\ launched' = now /\ task' = NoTask)
      /\ task' = NoTask \/ task' = task
  BY ZenonT(40), <1>0, <1>2, LaunchType DEF ProcTypeOK
<1>4. task'.kind = "none"
  BY <1>1, <1>3 DEF NoTask, RestartPlanned, IInv, Paired
<1>5. relaunched' \in Seq(Nat)
  BY SMTT(40), SMTT(41), <1>0, <1>2 DEF PolicyTypeOK
<1>6. PolicyTypeOK'
  <2>1. pending' \in BOOLEAN
    BY <1>1, Zenon
  <2> QED BY <1>0, <1>1, <1>5, <2>1 DEF PolicyTypeOK
<1>7. TypeOK'
  BY ZenonT(40), <1>0, <1>1, <1>3, <1>6, ClockSame, TypePartsNext
<1>8. \/ root' = "gone" /\ UNCHANGED <<launched, relaunched>>
      \/ launched' = now /\ relaunched' = Append(relaunched, now)
  <2>1. root' = "alive" <=> o = "ok"
    BY ZenonT(40), <1>2 DEF Launch
  <2> QED BY <1>2, <1>3, <2>1
<1> QED BY ZenonT(40), <1>1, <1>4, <1>7, <1>8, LaunchStep

\* A start or heartbeat timeout.
LEMMA TimeoutStep == ASSUME IInv, Timeout PROVE IInv'
<1>0. /\ TypeOK /\ ClockTypeOK /\ ProcTypeOK /\ PolicyTypeOK /\ now \in Nat
      /\ config.heartbeat \in Int
  BY TypeParts, ConfigType DEF IInv, ClockTypeOK
<1>1. /\ UNCHANGED <<config, now, wake, launched, policy_vars, relaunched>> /\ pc' = "poll"
      /\ Has_process /\ st # "REQUEST_STOP"
  BY DEF Timeout, Pass, TimedOut, Starting, Watched
<1>2. task.kind = "none" /\ ~pending /\ Len(relaunched) = Len(decided) /\ PlanAhead
  BY ZenonT(40), <1>1 DEF IInv, TaskState, Paired, Has_process, PlanAhead
<1>3. /\ ProcTypeOK' /\ root' = root
      /\ task'.kind # "auto" /\ (task'.kind # "none" => st' = "REQUEST_STOP")
  <2>1. CASE config.action = "skip" /\ st = "STARTING"
    <3>1. /\ st' = "RUNING" /\ tick' = now /\ action_due' = 0
          /\ UNCHANGED <<root, desc, job, task, stale>>
      BY ZenonT(40), <2>1 DEF Timeout
    <3> QED BY <1>0, <1>1, <1>2, <3>1 DEF ProcTypeOK
  <2>2. CASE config.action = "skip" /\ st # "STARTING"
    <3>1. action_due' = now + Max2(1, config.heartbeat) /\ UNCHANGED <<proc_vars, tick>>
      BY <2>2 DEF Timeout
    <3>2. action_due' \in Int
      BY <1>0, <3>1 DEF Max2
    <3>3. UNCHANGED <<st, root, desc, job, task, stale, tick>>
      BY ZenonT(40), <3>1 DEF proc_vars
    <3> QED BY <1>0, <1>1, <1>2, <3>2, <3>3 DEF ProcTypeOK
  <2>3. CASE config.action = "restart"
    <3>1. async_kill_prog("timeout") /\ UNCHANGED <<tick, action_due>>
      BY ZenonT(40), <2>3 DEF Timeout
    <3> QED BY <1>0, <1>1, <3>1, KillType DEF ProcTypeOK
  <2>4. CASE config.action \notin {"skip", "restart"}
    <3>1. UNCHANGED <<st, root, desc, job, task, stale, tick, action_due>>
      BY <2>4 DEF Timeout, proc_vars
    <3> QED BY <1>0, <1>1, <1>2, <3>1 DEF ProcTypeOK
  <2> QED BY ZenonT(40), <2>1, <2>2, <2>3, <2>4
<1>4. TypeOK'
  BY ZenonT(40), <1>0, <1>1, <1>3, ClockSame, PolicySame, TypePartsNext
<1>5. TaskStamp' /\ TaskState' /\ now <= now'
  BY <1>0, <1>1, <1>3 DEF TaskStamp, TaskState
<1> QED BY ZenonT(40), <1>1, <1>2, <1>4, <1>5, QuietStep DEF policy_vars

\* The poll loop.
LEMMA PollStep == ASSUME IInv, Poll PROVE IInv'
<1> DEFINE r == poll(job, Gen, now, is_tree_empty)
           forced == force(r.job, Gen)
<1>0. TypeOK /\ ClockTypeOK /\ ProcTypeOK /\ PolicyTypeOK /\ now \in Nat
  BY TypeParts DEF IInv, ClockTypeOK
<1>1. UNCHANGED <<config, now, wake>> /\ pc' = "arm" /\ ClockTypeOK' /\ now <= now'
  BY <1>0, ClockSame DEF Poll, Pass
<1>2. is_tree_empty \in BOOLEAN
  BY ZenonT(40) DEF is_tree_empty
<1>3. r.job \in JobType /\ forced.job \in JobType
  BY <1>0, <1>2, JobOps DEF ProcTypeOK
<1>4. CASE st # "REQUEST_STOP"
  <2>1. UNCHANGED <<proc_vars, policy_vars, stamp_vars, relaunched>>
    BY ZenonT(40), <1>4 DEF Poll
  <2> QED BY <1>1, <2>1, IdleStep
<1>5. CASE st = "REQUEST_STOP" /\ ~Has_process /\ is_tree_empty
  <2>1. execute_penddingtasks("REQUEST_STOP", r.job)
    BY ZenonT(40), <1>5 DEF Poll
  <2> QED BY ZenonT(40), <1>1, <1>3, <2>1, TaskRun
<1>6. CASE st = "REQUEST_STOP" /\ (Has_process \/ ~is_tree_empty)
  <2>1. /\ IF r.action = "send_kill"
            THEN /\ job' = forced.job /\ desc' = FALSE
                 /\ root' = IF root = "alive" THEN "zombie" ELSE root
            ELSE job' = r.job /\ UNCHANGED <<root, desc>>
        /\ UNCHANGED <<st, task, stale, policy_vars, stamp_vars, relaunched>>
    BY ZenonT(40), <1>6 DEF Poll
  <2> HIDE DEF r, forced
  <2>2. desc' \in BOOLEAN
    <3>1. desc' = FALSE \/ desc' = desc
      BY <2>1, Zenon
    <3> QED BY <1>0, <3>1, Zenon DEF ProcTypeOK
  <2>3. /\ job' \in JobType /\ root' \in {"alive", "zombie", "gone"}
        /\ root' = "gone" <=> root = "gone"
    BY ZenonT(40), <1>0, <1>3, <2>1 DEF ProcTypeOK
  <2>4. ProcTypeOK'
    BY ZenonT(40), <1>0, <2>1, <2>2, <2>3 DEF ProcTypeOK, stamp_vars
  <2>5. TypeOK'
    BY ZenonT(40), <1>0, <1>1, <2>1, <2>4, PolicySame, TypePartsNext
  <2>6. UNCHANGED <<policy, pending, decided, latest, launched, relaunched, task, st>>
    BY ZenonT(40), <2>1 DEF policy_vars, stamp_vars
  <2>7. TaskStamp' /\ TaskState' /\ (PlanAhead' => PlanAhead)
    BY ZenonT(40), <1>1, <2>3, <2>6 DEF IInv, TaskStamp, TaskState, PlanAhead, Has_process
  <2>8. /\ Has_process' \/ task'.kind # "none" => Len(relaunched) = Len(decided)
        /\ pending => root' = "gone" /\ task'.kind = "none"
    BY <2>3, <2>6 DEF IInv, Paired, Has_process
  <2>9. Has_process' \/ task'.kind # "none" => Has_process \/ task.kind # "none" \/ ~pending
    BY <2>3, <2>6 DEF Has_process
  <2> QED BY <1>1, <2>5, <2>6, <2>7, <2>8, <2>9, QuietStep
<1> QED BY <1>4, <1>5, <1>6

\* Deadlines are integers.
LEMMA DeadlineTypes ==
  ASSUME TypeOK
  PROVE  /\ now \in Nat /\ due \in Int /\ deadline(job) \in Int
         /\ start_due \in Int /\ heartbeat_due \in Int
<1>1. /\ job.started \in Nat /\ job.timeout \in Nat /\ now \in Nat /\ due \in Int
      /\ launched \in Nat /\ tick \in Nat /\ action_due \in Int
      /\ config.start_timeout \in Int /\ config.heartbeat \in Int
  BY ConfigType DEF TypeOK, Jobs
<1> QED BY SMTT(40), SMTT(41), <1>1 DEF deadline, start_due, heartbeat_due, Max2

\* The wait the timer is armed with is a number from 1 to the default wait.
LEMMA WaitType ==
  ASSUME TypeOK, NEW busy \in BOOLEAN, NEW w \in next_wait(busy)
  PROVE  w \in Nat /\ 1 <= w /\ w <= DefaultWait
<1>1. /\ now \in Nat /\ due \in Int /\ deadline(job) \in Int
      /\ start_due \in Int /\ heartbeat_due \in Int
  BY DeadlineTypes
<1>2. \A d \in Deadlines : d \in Int
  BY <1>1 DEF Deadlines
<1>3. CASE w \in {1, BusyWait, DrainingWait}
  BY SMTT(40), <1>3, WaitAssumption
<1>4. CASE w \in {DefaultWait} \cup {Max2(1, d - now) : d \in Deadlines} /\ w <= DefaultWait
  <2>1. CASE w = DefaultWait
    BY SMTT(40), <2>1, WaitAssumption
  <2>2. CASE \E d \in Deadlines : w = Max2(1, d - now)
    BY SMTT(40), SMTT(41), <1>1, <1>2, <1>4, <2>2 DEF Max2
  <2> QED BY <1>4, <2>1, <2>2
<1> QED BY <1>3, <1>4 DEF next_wait

\* The timer is armed.
LEMMA ArmStep == ASSUME IInv, Arm PROVE IInv'
<1>0. TypeOK /\ now \in Nat
  BY DEF IInv, TypeOK
<1>1. PICK busy \in BOOLEAN : \E w \in next_wait(busy) : wake' = now + w
  BY DEF Arm
<1>2. PICK w \in next_wait(busy) : wake' = now + w
  BY <1>1
<1>3. wake' \in Nat
  BY SMTT(40), SMTT(41), <1>0, <1>2, WaitType
<1>4. ClockTypeOK' /\ config' = config /\ now <= now'
  BY SMTT(40), SMTT(41), <1>0, <1>3 DEF Arm, Pass, ClockTypeOK, TypeOK
<1> QED BY ZenonT(40), <1>4, IdleStep DEF Arm

\* A process exits or forks.
LEMMA ProcessStep == ASSUME IInv, Processes PROVE IInv'
<1>0. TypeOK /\ ClockTypeOK /\ ProcTypeOK /\ PolicyTypeOK /\ now \in Nat
  BY TypeParts DEF IInv, ClockTypeOK
<1>1. UNCHANGED <<clock_vars, pc, st, job, task, stale, policy_vars, stamp_vars, relaunched>>
  BY DEF Processes, RootExit, Fork, DescendantsExit
<1>2. desc' \in BOOLEAN
  <2>1. desc' = desc \/ desc' = TRUE \/ desc' = FALSE
    BY ZenonT(40) DEF Processes, RootExit, Fork, DescendantsExit
  <2> QED BY <1>0, <2>1, Zenon DEF ProcTypeOK
<1>3. root' \in {"alive", "zombie", "gone"} /\ (root' = "gone" <=> root = "gone")
  BY ZenonT(40), <1>0 DEF Processes, RootExit, Fork, DescendantsExit, ProcTypeOK
<1>4. ProcTypeOK' /\ ClockTypeOK'
  BY <1>0, <1>1, <1>2, <1>3 DEF ProcTypeOK, ClockTypeOK, stamp_vars, clock_vars
<1>5. TypeOK'
  BY ZenonT(40), <1>0, <1>1, <1>4, PolicySame, TypePartsNext
<1>6. /\ UNCHANGED <<config, now, policy, pending, decided, latest, launched, relaunched, task, st>>
      /\ now <= now'
  BY SMTT(40), SMTT(41), <1>0, <1>1 DEF policy_vars, stamp_vars, clock_vars
<1>7. TaskStamp' /\ TaskState' /\ (PlanAhead' => PlanAhead)
  BY ZenonT(40), <1>3, <1>6 DEF IInv, TaskStamp, TaskState, PlanAhead, Has_process
<1>8. /\ Has_process' \/ task'.kind # "none" => Len(relaunched) = Len(decided)
      /\ pending => root' = "gone" /\ task'.kind = "none"
  BY <1>3, <1>6 DEF IInv, Paired, Has_process
<1>9. Has_process' \/ task'.kind # "none" => Has_process \/ task.kind # "none" \/ ~pending
  BY <1>3, <1>6 DEF Has_process
<1> QED BY ZenonT(40), <1>5, <1>6, <1>7, <1>8, <1>9, QuietStep

\* Every step keeps the invariant.
LEMMA NextIInv == IInv /\ [Next]_vars => IInv'
<1> SUFFICES ASSUME IInv, [Next]_vars PROVE IInv'
  OBVIOUS
<1>0. ClockTypeOK /\ now \in Nat
  BY TypeParts DEF IInv, ClockTypeOK
<1>1. CASE Commands
  BY ZenonT(40), <1>1, StopStep, RestartStep, StartStep, HeartbeatStep DEF Commands, AppReady, AppTick
<1>2. CASE NothingToReap \/ NothingDue
  <2>1. /\ UNCHANGED <<config, now, wake, proc_vars, policy_vars, stamp_vars, relaunched>>
        /\ pc' \in {"plan", "poll"}
    BY <1>2 DEF NothingToReap, NothingDue, Pass
  <2> QED BY <1>0, <2>1, ClockSame, IdleStep
<1>3. CASE Maintenance
  BY <1>2, <1>3, ReapStep, DueRestartStep, TimeoutStep, PollStep, ArmStep DEF Maintenance
<1>4. CASE Processes
  BY <1>4, ProcessStep
<1>5. CASE Advance
  <2>1. ClockTypeOK' /\ config' = config /\ now <= now'
    BY <1>0, <1>5 DEF Advance, ClockTypeOK
  <2> QED BY <1>5, <2>1, IdleStep DEF Advance
<1>6. CASE UNCHANGED vars
  <2>1. /\ UNCHANGED <<config, now, wake, pc, proc_vars, policy_vars, stamp_vars, relaunched>>
    BY <1>6 DEF vars, clock_vars
  <2>2. ClockTypeOK' /\ now <= now'
    BY <1>0, <2>1 DEF ClockTypeOK
  <2> QED BY <2>1, <2>2, IdleStep
<1> QED BY <1>1, <1>3, <1>4, <1>5, <1>6 DEF Next

\* The restarts that are planned alternate with the launches that carry them
\* out, so what bounds the first bounds the second.
LEMMA LaunchBound == IInv => LaunchesBounded
<1> SUFFICES ASSUME IInv, Limited, NEW i \in DOMAIN relaunched,
                    i + config.max_attempts + 1 \in DOMAIN relaunched
             PROVE  relaunched[i + config.max_attempts + 1] - relaunched[i] >= config.window
  BY SMTT(40) DEF LaunchesBounded
<1> DEFINE m == config.max_attempts
<1>1. /\ m \in Nat /\ config.window \in Nat /\ Len(decided) \in Nat /\ Len(relaunched) \in Nat
      /\ i \in 1 .. Len(relaunched) /\ i + m + 1 \in 1 .. Len(relaunched)
      /\ Len(relaunched) <= Len(decided)
  BY ZenonT(40), ConfigType, HistoryType DEF IInv, TypeOK, Paired
<1> HIDE DEF m
<1>2. /\ i + 1 \in 1 .. Len(decided) /\ (i + 1) + m \in 1 .. Len(decided)
      /\ i + 1 <= Len(decided) /\ (i + 1) + m = i + m + 1
  BY SMTT(40), SMTT(41), <1>1
<1>3. decided[(i + 1) + m] - decided[i + 1] >= config.window
  <2>1. DOMAIN decided = 1 .. Len(decided)
    BY HistoryType DEF IInv
  <2> QED BY <1>2, <2>1 DEF IInv, RestartsBounded, m
<1>4. decided[(i + 1) + m] <= relaunched[i + m + 1] /\ relaunched[i] <= decided[i + 1]
  BY ZenonT(40), <1>1, <1>2 DEF IInv, Paired
<1>5. /\ decided[(i + 1) + m] \in Nat /\ decided[i + 1] \in Nat
      /\ relaunched[i + m + 1] \in Nat /\ relaunched[i] \in Nat
  BY <1>1, <1>2, HistoryType DEF IInv
<1>6. relaunched[i + m + 1] - relaunched[i] >= config.window
  <2>1. config.window \in Nat
    BY <1>1
  <2> DEFINE a == decided[(i + 1) + m]
             b == decided[i + 1]
             c == relaunched[i + m + 1]
             d == relaunched[i]
  <2>2. a - b >= config.window /\ a <= c /\ d <= b
    BY <1>3, <1>4
  <2>3. a \in Nat /\ b \in Nat /\ c \in Nat /\ d \in Nat
    BY <1>5
  <2>4. c - d >= config.window
    <3> HIDE DEF a, b, c, d
    <3> QED BY <2>1, <2>2, <2>3
  <2> QED BY <2>4
<1> QED BY <1>6 DEF m

\* The types of the model, for every configuration and clock.
THEOREM TypeCorrect == Spec => []TypeOK
<1>1. IInv => TypeOK
  BY DEF IInv
<1> QED BY <1>1, InitIInv, NextIInv, PTL DEF Spec

\* plan_automatic_restart keeps to max_attempts restarts in a window, whatever
\* the configuration, the delays and the order of exits, deadlines and passes.
THEOREM RestartsAreBounded == Spec => []RestartsBounded
<1>1. IInv => RestartsBounded
  BY DEF IInv
<1> QED BY <1>1, InitIInv, NextIInv, PTL DEF Spec

\* At most max_attempts + 1 launches that no user asked for fall into a window.
THEOREM LaunchesAreBounded == Spec => []LaunchesBounded
  BY InitIInv, NextIInv, LaunchBound, PTL DEF Spec

-----------------------------------------------------------------------------
(* The timer *)

\* The timer is never armed past a known deadline.
THEOREM TimerIsArmedInTime == Spec => ArmedInTime
<1>1. ASSUME IInv, [Next]_vars, pc = "arm", pc' = "idle", NEW d \in Deadlines
      PROVE  wake' <= Max2(d, now + Max2(BusyWait, DrainingWait))
  <2>1. Arm
    BY <1>1
    DEF Next, vars, Commands, Stop, Restart, Start, AppReady, AppTick, Heartbeat, Command,
        Maintenance, Reap, NothingToReap, DueRestart, Timeout, NothingDue, Poll, Pass,
        Processes, RootExit, Fork, DescendantsExit, Advance
  <2>2. PICK busy \in BOOLEAN : \E w \in next_wait(busy) : wake' = now + w
    BY <2>1 DEF Arm
  <2>3. PICK w \in next_wait(busy) : wake' = now + w
    BY <2>2
  <2>4. /\ now \in Nat /\ due \in Int /\ deadline(job) \in Int
        /\ start_due \in Int /\ heartbeat_due \in Int
    BY <1>1, DeadlineTypes DEF IInv
  <2>5. d \in Int
    BY <2>4 DEF Deadlines
  <2>6. CASE w \in {1, BusyWait, DrainingWait}
    BY SMTT(40), SMTT(41), <2>3, <2>4, <2>5, <2>6, WaitAssumption DEF Max2
  <2>7. CASE w <= Max2(1, d - now)
    <3>1. w \in Nat
      BY <1>1, WaitType DEF IInv
    <3> QED BY <2>3, <2>4, <2>5, <2>7, <3>1, WaitAssumption DEF Max2
  <2>8. w \in {1, BusyWait, DrainingWait} \/ w <= Max2(1, d - now)
    BY DEF next_wait
  <2> QED BY ZenonT(40), <2>6, <2>7, <2>8
<1>2. IInv /\ [Next]_vars =>
        [pc = "arm" /\ pc' = "idle"
           => \A d \in Deadlines : wake' <= Max2(d, now + Max2(BusyWait, DrainingWait))]_vars
  BY ZenonT(40), <1>1
<1> QED BY <1>2, InitIInv, NextIInv, PTL DEF Spec, ArmedInTime

\* What the current pass, or the last one, has taken care of: every deadline
\* up to here.
Horizon == IF pc = "idle" THEN wake - DefaultWait ELSE now

StartsMet ==
  /\ Starting /\ config.action # "reboot" => Horizon <= start_due
  /\ Watched /\ config.action # "reboot" => Horizon <= heartbeat_due
  /\ RestartPlanned => Horizon <= Max2(due, latest.when)

KillMet == Terminating => Horizon <= deadline(job)

\* A generation that is not being stopped has not started its kill clock.
FreshJob ==
  /\ Has_process /\ st # "REQUEST_STOP" => job.phase = "none"
  /\ job.phase # "none" => job.generation = Gen
  /\ pending => ~desc

LateInv ==
  /\ Horizon <= now /\ FreshJob
  /\ pc # "plan" => StartsMet
  /\ pc \in {"idle", "arm"} => KillMet

\* Types, without the sequences of the history.
Numbers ==
  /\ now \in Nat /\ wake \in Nat /\ due \in Int /\ latest.when \in Nat
  /\ launched \in Nat /\ tick \in Nat /\ action_due \in Int
  /\ job \in JobType
  /\ DefaultWait \in Nat /\ config.kill_timeout \in Nat
  /\ config.start_timeout \in Int /\ config.heartbeat \in Int

\* They follow from the type invariant.
LEMMA NumbersType == TypeOK => Numbers
  BY ConfigType, WaitAssumption DEF TypeOK, Numbers, JobType

\* So do those of the next state.
LEMMA NumbersNext == TypeOK' => Numbers'
<1>1. ASSUME TypeOK' PROVE Numbers'
  <2>1. config' \in Configs
    BY <1>1 DEF TypeOK
  <2>2. /\ config'.kill_timeout \in Nat /\ config'.start_timeout \in Int
        /\ config'.heartbeat \in Int
    BY <2>1, ConfigsAssumption DEF ConfigSpace
  <2> QED BY SMTT(40), <1>1, <2>2, WaitAssumption DEF TypeOK, Numbers, JobType
<1> QED BY ZenonT(40), <1>1

\* The first deadlines lie in the future.
LEMMA InitLate == Init => LateInv
<1> SUFFICES ASSUME Init PROVE LateInv
  OBVIOUS
<1>1. Numbers
  BY ZenonT(40), InitIInv, NumbersType DEF IInv
<1>2. Horizon <= now
  BY SMTT(40), SMTT(41), <1>1, WaitAssumption DEF Init, Horizon, Numbers
<1>3. FreshJob
  BY ZenonT(40) DEF Init, FreshJob, NewJob
<1>4. StartsMet
  BY SMTT(40), <1>1, <1>2 DEF Init, StartsMet, Starting, Watched, RestartPlanned, start_due, Numbers, Horizon
<1>5. KillMet
  BY ZenonT(40) DEF Init, KillMet, Terminating
<1> QED BY <1>2, <1>3, <1>4, <1>5 DEF LateInv

\* A step that starts no clock but from now on, and does not move the horizon.
LEMMA LateCommand ==
  ASSUME IInv, IInv', LateInv, pc = "idle", UNCHANGED <<config, now, wake, pc>>, FreshJob',
         Starting' => (Starting /\ launched' = launched) \/ launched' = now,
         Watched' => \/ Watched /\ UNCHANGED <<tick, action_due>>
                     \/ tick' = now,
         ~pending',
         Terminating' => (Terminating /\ job' = job) \/ job'.started = now
  PROVE  LateInv'
<1> DEFINE H == wake - DefaultWait
<1>1. Numbers /\ Numbers'
  BY ZenonT(40), NumbersType, NumbersNext DEF IInv
<1>2. Horizon = H /\ Horizon' = H /\ H \in Int /\ H <= now
  BY SMTT(40), SMTT(41), <1>1 DEF Horizon, LateInv, Numbers
<1> HIDE DEF H
<1>3. Starting' /\ config'.action # "reboot" => H <= start_due'
  BY SMTT(40), SMTT(41), <1>1, <1>2 DEF LateInv, StartsMet, start_due, Starting, Numbers
<1>4. Watched' /\ config'.action # "reboot" => H <= heartbeat_due'
  BY SMTT(40), SMTT(41), <1>1, <1>2 DEF LateInv, StartsMet, heartbeat_due, Watched, Numbers, Max2
<1>5. Terminating' => H <= deadline(job')
  BY SMTT(40), SMTT(41), <1>1, <1>2 DEF LateInv, KillMet, deadline, Numbers, JobType, Jobs
<1> QED BY ZenonT(40), <1>2, <1>3, <1>4, <1>5 DEF LateInv, StartsMet, KillMet, RestartPlanned

\* A termination requested now is due from now on.
LEMMA KillLate ==
  ASSUME IInv, LateInv, NEW kind, async_kill_prog(kind), Has_process
  PROVE  /\ st' = "REQUEST_STOP" /\ root' = root /\ desc' = desc
         /\ (st = "REQUEST_STOP" /\ job' = job) \/ job'.started = now
         /\ job'.phase # "none" => job'.generation = Gen
<1>1. job' = request(job, Gen, now, config.kill_timeout).job
  BY DEF async_kill_prog
<1>2. /\ st # "REQUEST_STOP" => job.phase = "none"
      /\ job.phase # "none" => job.generation = Gen
  BY SMTT(40) DEF LateInv, FreshJob
<1>3. (st = "REQUEST_STOP" /\ job' = job) \/ (job'.started = now /\ job'.generation = Gen)
  BY ZenonT(40), <1>1, <1>2 DEF request, Result
<1> QED BY <1>2, <1>3 DEF async_kill_prog

\* What a launch leaves for the deadlines.
LEMMA LaunchLate ==
  ASSUME NEW o \in Outcomes, NEW base, NEW failed, NEW clears \in BOOLEAN, NEW j,
         Launch(o, base, failed, clears, j)
  PROVE  \/ root' = "alive" /\ launched' = now /\ st' = "STARTING" /\ job' = NewJob
         \/ /\ root' = "gone" /\ st' \in {base, failed}
            /\ job' = NewJob \/ job' = j
  BY DEF Launch

\* A new job has no deadline.
LEMMA NewJobLate == NewJob.phase = "none"
  BY DEF NewJob

\* Commands.
LEMMA CommandsLate == ASSUME IInv, IInv', LateInv, Commands PROVE LateInv'
<1>1. pc = "idle" /\ UNCHANGED <<config, now, wake, pc>>
  BY ZenonT(40) DEF Commands, Stop, Restart, Start, AppReady, AppTick, Heartbeat, Command, clock_vars
<1>2. ASSUME reset_restart_policy, NEW kind, async_kill_prog(kind), Has_process,
             UNCHANGED stamp_vars
      PROVE  LateInv'
  <2>1. ~pending' /\ UNCHANGED <<launched, tick, action_due>>
    BY <1>2 DEF reset_restart_policy, stamp_vars
  <2>2. /\ st' = "REQUEST_STOP" /\ root' = root
        /\ (st = "REQUEST_STOP" /\ job' = job) \/ job'.started = now
        /\ job'.phase # "none" => job'.generation = Gen
    BY ZenonT(40), <1>2, KillLate
  <2>3. FreshJob' /\ ~Starting' /\ ~Watched'
    BY <2>1, <2>2 DEF FreshJob, Starting, Watched
  <2>4. Terminating' => (Terminating /\ job' = job) \/ job'.started = now
    BY ZenonT(40), <2>2 DEF Terminating
  <2> QED BY ZenonT(40), <1>1, <2>1, <2>3, <2>4, LateCommand
<1>3. ASSUME reset_restart_policy, NEW o \in Outcomes, NEW failed \in {st, "STARTUP_FAIL"},
             Launch(o, st, failed, FALSE, job)
      PROVE  LateInv'
  <2>1. ~pending'
    BY <1>3 DEF reset_restart_policy
  <2>2. \/ root' = "alive" /\ launched' = now /\ st' = "STARTING" /\ job' = NewJob
        \/ /\ root' = "gone" /\ st' \in {st, failed}
           /\ job' = NewJob \/ job' = job
    BY ZenonT(40), <1>3, LaunchLate
  <2>3. FreshJob'
    BY ZenonT(40), <2>1, <2>2, NewJobLate DEF FreshJob, LateInv, Has_process
  <2>4. (Starting' => launched' = now) /\ ~Watched' /\ (Terminating' => Terminating /\ job' = job)
    BY ZenonT(40), <2>2, NewJobLate DEF Starting, Watched, Has_process, Terminating
  <2> QED BY ZenonT(40), <1>1, <2>1, <2>3, <2>4, LateCommand
<1>4. ASSUME reset_restart_policy, UNCHANGED <<root, job, launched, tick, action_due>>,
             st' = st \/ (st' = "STOPED" /\ ~Has_process)
      PROVE  LateInv'
  <2>1. ~pending'
    BY <1>4 DEF reset_restart_policy
  <2>2. FreshJob'
    BY ZenonT(40), <1>4, <2>1 DEF FreshJob, LateInv, Has_process
  <2>3. (Starting' => Starting) /\ (Watched' => Watched) /\ (Terminating' => Terminating)
    BY <1>1, <1>4 DEF Starting, Watched, Has_process, Terminating
  <2> QED BY ZenonT(40), <1>1, <1>4, <2>1, <2>2, <2>3, LateCommand
<1>5. CASE Stop
  <2>1. CASE Has_process
    BY ZenonT(40), <1>2, <1>5, <2>1 DEF Stop
  <2>2. CASE ~Has_process
    BY <1>4, <1>5, <2>2 DEF Stop, stamp_vars
  <2> QED BY <2>1, <2>2
<1>6. CASE Restart
  <2>1. CASE task # NoTask \/ stale
    BY ZenonT(40), <1>4, <1>6, <2>1 DEF Restart, stamp_vars, proc_vars
  <2>2. CASE ~(task # NoTask \/ stale) /\ Has_process
    BY <1>2, <1>6, <2>2 DEF Restart
  <2>3. CASE ~(task # NoTask \/ stale) /\ ~Has_process
    BY ZenonT(40), <1>3, <1>6, <2>3 DEF Restart
  <2> QED BY SMTT(40), <2>1, <2>2, <2>3
<1>7. CASE Start
  BY ZenonT(40), <1>3, <1>7 DEF Start
<1>8. ASSUME NEW state \in {"STARTING", "RUNING"}, Heartbeat(state)
      PROVE  LateInv'
  <2>1. /\ Has_process /\ st = state /\ st' = "RUNING" /\ tick' = now
        /\ UNCHANGED <<root, desc, job, policy_vars, launched>>
    BY ZenonT(40), <1>8 DEF Heartbeat
  <2>2. ~pending
    BY <2>1 DEF IInv, Paired, Has_process
  <2>3. ~pending' /\ FreshJob' /\ ~Starting' /\ ~Terminating'
    BY ZenonT(40), <2>1, <2>2 DEF FreshJob, LateInv, Has_process, Starting, Terminating, policy_vars
  <2> QED BY ZenonT(40), <1>1, <2>1, <2>3, LateCommand
<1> QED BY SMTT(40), <1>5, <1>6, <1>7, <1>8 DEF Commands, AppReady, AppTick

\* What running the task of a stopped program leaves for the deadlines.
LEMMA TaskLate ==
  ASSUME IInv, NEW base, NEW j, execute_penddingtasks(base, j), ~desc, UNCHANGED <<config, now>>
  PROVE  /\ (root' = "alive" /\ launched' = now /\ st' = "STARTING" /\ job' = NewJob) \/ root' = "gone"
         /\ job' = NewJob \/ job' = j
         /\ ~desc'
         /\ pending' => latest'.when = now \/ (pending /\ UNCHANGED <<due, latest, root>>)
<1>0. task.kind \in {"none", "stop", "restart", "auto", "timeout"}
  BY DEF IInv, TypeOK
<1>1. ASSUME NEW state, TasksDone(state, j)
      PROVE  root' = "gone" /\ job' = j /\ ~desc'
  BY <1>1 DEF TasksDone
<1>2. ASSUME NEW at, NEW life, plan_automatic_restart(at, life)
      PROVE  latest'.when = now
  BY SMTT(40), SMTT(41), <1>2 DEF plan_automatic_restart
<1>3. CASE task.kind \in {"none", "stop"}
  <2>1. TasksDone(base, j) /\ UNCHANGED policy_vars
    BY ZenonT(40), <1>3 DEF execute_penddingtasks
  <2>2. pending => root = "gone"
    BY DEF IInv, Paired
  <2> QED BY <1>1, <2>1, <2>2 DEF policy_vars
<1>4. CASE task.kind = "restart"
  <2>1. PICK o \in Outcomes : Launch(o, base, base, TRUE, j)
    BY ZenonT(40), <1>4 DEF execute_penddingtasks
  <2>2. UNCHANGED policy_vars /\ ~pending
    BY <1>4 DEF execute_penddingtasks, IInv, Paired
  <2>3. ~desc'
    BY <2>1, Zenon DEF Launch
  <2> QED BY ZenonT(40), <2>1, <2>2, <2>3, LaunchLate DEF policy_vars
<1>5. CASE task.kind = "auto"
  <2>1. /\ plan_automatic_restart(task.at, task.life)
        /\ TasksDone(IF pending' THEN "WAITING_START" ELSE "STOPED", j)
    BY ZenonT(40), <1>5 DEF execute_penddingtasks
  <2> QED BY <1>1, <1>2, <2>1
<1>6. CASE task.kind = "timeout"
  <2>1. /\ plan_automatic_restart(now, now - launched)
        /\ TasksDone(IF pending' THEN "WAITING_START" ELSE "STARTUP_FAIL", j)
    BY <1>6 DEF execute_penddingtasks
  <2> QED BY <1>1, <1>2, <2>1
<1> QED BY ZenonT(40), <1>0, <1>3, <1>4, <1>5, <1>6

\* The beginning of a pass.
LEMMA ReapLate ==
  ASSUME IInv, IInv', LateInv, Reap \/ NothingToReap
  PROVE  LateInv'
<1>1. pc' = "plan" /\ UNCHANGED <<config, now, wake>> /\ Numbers
  BY ZenonT(40), NumbersType DEF Reap, NothingToReap, Pass, IInv
<1>2. Horizon' <= now'
  BY <1>1 DEF Horizon, Numbers
<1>3. FreshJob'
  <2>1. CASE NothingToReap
    BY SMTT(40), <2>1 DEF NothingToReap, LateInv, FreshJob, Has_process, proc_vars, policy_vars
  <2>2. CASE Reap /\ desc
    <3>1. /\ root' = "gone" /\ job' = mark_tree_draining(job, Gen, now, config.kill_timeout).job
          /\ UNCHANGED policy_vars /\ root = "zombie"
      BY ZenonT(40), <2>2 DEF Reap
    <3>2. ~pending'
      BY <3>1 DEF IInv, Paired, policy_vars
    <3>3. job'.generation = Gen
      BY SMTT(40), <1>1, <3>1 DEF mark_tree_draining, Result, Numbers, JobType, Jobs
    <3> QED BY ZenonT(40), <3>1, <3>2, <3>3 DEF FreshJob, Has_process
  <2>3. CASE Reap /\ ~desc /\ st = "REQUEST_STOP"
    <3>1. execute_penddingtasks("STOPED", job)
      BY <2>3 DEF Reap
    <3> QED BY ZenonT(40), <1>1, <2>3, <3>1, TaskLate, NewJobLate DEF FreshJob, Has_process, LateInv
  <2>4. CASE Reap /\ ~desc /\ st # "REQUEST_STOP"
    <3>1. root' = "gone" /\ UNCHANGED <<desc, job>>
      BY <2>4 DEF Reap
    <3> QED BY ZenonT(40), <2>4, <3>1 DEF FreshJob, Has_process, LateInv
  <2> QED BY ZenonT(40), <2>1, <2>2, <2>3, <2>4
<1> QED BY ZenonT(40), <1>1, <1>2, <1>3 DEF LateInv

\* The middle of a pass: what is due is acted on.
LEMMA DueLate ==
  ASSUME IInv, IInv', LateInv, DueRestart \/ Timeout \/ NothingDue
  PROVE  LateInv'
<1>1. pc' = "poll" /\ UNCHANGED <<config, now, wake>> /\ Numbers /\ Numbers'
  BY ZenonT(40), NumbersType, NumbersNext DEF DueRestart, Timeout, NothingDue, Pass, IInv
<1>2. Horizon' <= now' /\ Horizon' = now
  BY SMTT(40), SMTT(41), <1>1 DEF Horizon, Numbers
<1>3. CASE DueRestart
  <2>1. PICK o \in Outcomes : Launch(o, st, "STARTUP_FAIL", FALSE, job)
    BY ZenonT(40), <1>3 DEF DueRestart
  <2>2. ~pending'
    BY <1>3 DEF DueRestart
  <2>3. \/ root' = "alive" /\ launched' = now /\ st' = "STARTING" /\ job' = NewJob
        \/ root' = "gone" /\ (job' = NewJob \/ job' = job)
    BY ZenonT(40), <2>1, LaunchLate
  <2>4. FreshJob'
    BY <2>2, <2>3, NewJobLate DEF FreshJob, Has_process, LateInv
  <2>5. ~Watched' /\ ~RestartPlanned' /\ (Starting' => launched' = now /\ config.start_timeout >= 0)
    BY ZenonT(40), <1>1, <2>2, <2>3 DEF Watched, RestartPlanned, Starting, Has_process
  <2>6. StartsMet'
    BY SMTT(40), SMTT(41), <1>1, <1>2, <2>5 DEF StartsMet, start_due, Numbers
  <2> QED BY <1>1, <1>2, <2>4, <2>6 DEF LateInv
<1>4. CASE NothingDue
  <2>1. /\ UNCHANGED <<root, desc, st, job, pending, due, latest, launched, tick, action_due>>
        /\ ~(RestartPlanned /\ due <= now /\ is_tree_empty) /\ ~TimedOut
    BY ZenonT(40), <1>4 DEF NothingDue, proc_vars, policy_vars, stamp_vars
  <2>2. FreshJob'
    BY <2>1 DEF FreshJob, Has_process, LateInv
  <2>3. RestartPlanned => ~(due <= now)
    BY ZenonT(40), <2>1 DEF RestartPlanned, Has_process, is_tree_empty, LateInv, FreshJob
  <2>4. RestartPlanned' => now <= Max2(due', latest'.when)
    BY SMTT(40), SMTT(41), <1>1, <2>1, <2>3 DEF RestartPlanned, Has_process, Max2, Numbers
  <2>5. Starting' => now <= start_due'
    BY SMTT(40), SMTT(41), <1>1, <2>1 DEF Starting, TimedOut, start_due, Has_process, Numbers
  <2>6. Watched' => now <= heartbeat_due'
    BY <1>1, <2>1 DEF Watched, TimedOut, heartbeat_due, Has_process, Numbers, Max2
  <2> QED BY ZenonT(40), <1>1, <1>2, <2>2, <2>4, <2>5, <2>6 DEF LateInv, StartsMet
<1>5. CASE Timeout
  <2>1. /\ UNCHANGED <<launched, policy_vars>> /\ Has_process /\ st # "REQUEST_STOP"
        /\ TimedOut
    BY ZenonT(40), <1>5 DEF Timeout, TimedOut, Starting, Watched
  <2>2. ~pending' /\ job.phase = "none" /\ (job.phase # "none" => job.generation = Gen)
    BY ZenonT(40), <2>1 DEF IInv, Paired, Has_process, policy_vars, LateInv, FreshJob
  <2>3. CASE config.action = "skip" /\ st = "STARTING"
    <3>1. st' = "RUNING" /\ tick' = now /\ UNCHANGED <<root, job>>
      BY ZenonT(40), <1>5, <2>3 DEF Timeout
    <3>2. FreshJob' /\ ~Starting' /\ ~RestartPlanned'
      BY ZenonT(40), <2>2, <3>1 DEF FreshJob, Starting, RestartPlanned
    <3>3. Watched' => now <= heartbeat_due'
      BY SMTT(40), SMTT(41), <1>1, <3>1 DEF Watched, heartbeat_due, Max2, Numbers
    <3> QED BY <1>1, <1>2, <3>2, <3>3 DEF LateInv, StartsMet
  <2>4. CASE config.action = "skip" /\ st # "STARTING"
    <3>1. action_due' = now + Max2(1, config.heartbeat) /\ UNCHANGED <<st, root, job>>
      BY ZenonT(40), <1>5, <2>4 DEF Timeout, proc_vars
    <3>2. FreshJob' /\ ~Starting' /\ ~RestartPlanned'
      BY ZenonT(40), <2>2, <2>4, <3>1 DEF FreshJob, Starting, RestartPlanned
    <3>3. now <= heartbeat_due'
      BY SMTT(40), SMTT(41), <1>1, <3>1 DEF heartbeat_due, Max2, Numbers
    <3> QED BY ZenonT(40), <1>1, <1>2, <3>2, <3>3 DEF LateInv, StartsMet
  <2>5. CASE config.action = "restart"
    <3>1. async_kill_prog("timeout")
      BY ZenonT(40), <1>5, <2>5 DEF Timeout
    <3>2. st' = "REQUEST_STOP" /\ (job'.phase # "none" => job'.generation = Gen)
      BY SMTT(40), <2>1, <3>1, KillLate
    <3>3. FreshJob' /\ ~Starting' /\ ~RestartPlanned' /\ ~Watched'
      BY ZenonT(40), <2>2, <3>2 DEF FreshJob, Starting, RestartPlanned, Watched
    <3> QED BY <1>1, <1>2, <3>3 DEF LateInv, StartsMet
  <2>6. CASE config.action = "reboot"
    <3>1. UNCHANGED <<st, root, job>>
      BY <1>5, <2>6 DEF Timeout, proc_vars
    <3>2. FreshJob' /\ ~RestartPlanned'
      BY ZenonT(40), <2>2, <3>1 DEF FreshJob, RestartPlanned
    <3> QED BY <1>1, <1>2, <2>6, <3>2 DEF LateInv, StartsMet
  <2>7. config.action \in {"skip", "restart", "reboot"}
    BY ZenonT(40), ConfigsAssumption DEF IInv, TypeOK, ConfigSpace
  <2> QED BY <2>3, <2>4, <2>5, <2>6, <2>7
<1> QED BY <1>3, <1>4, <1>5

\* A job that has been polled is over, is being forced, or has time left.
LEMMA PolledJob ==
  ASSUME NEW j \in JobType, j.phase # "none" => j.generation = Gen,
         NEW t \in Nat, NEW e \in BOOLEAN
  PROVE  LET r == poll(j, Gen, t, e)
         IN  /\ r.job.phase # "none" => r.job.generation = Gen
             /\ r.job.phase \in {"term_requested", "tree_draining"} => t <= deadline(r.job)
             /\ e => r.job.phase \notin {"term_requested", "tree_draining"}
             /\ r.action = "send_kill" => /\ force(r.job, Gen).job.phase = "force_kill_requested"
                                          /\ force(r.job, Gen).job.generation = Gen
<1> DEFINE r == poll(j, Gen, t, e)
<1>1. j.started \in Nat /\ j.timeout \in Nat /\ deadline(j) \in Nat
  BY DEF JobType, Jobs, deadline
<1>2. CASE j.generation # Gen
  BY <1>2 DEF poll, Result
<1>3. CASE j.generation = Gen /\ e
  BY SMTT(40), <1>3 DEF poll, Result, JobType, Jobs
<1>4. CASE j.generation = Gen /\ ~e
  <2>1. CASE j.phase \in {"term_requested", "tree_draining"} /\ t >= deadline(j)
    <3>1. r = Result([j EXCEPT !.phase = "force_kill_requested"], "send_kill")
      BY SMTT(40), <1>4, <2>1 DEF poll
    <3> QED BY <1>4, <3>1 DEF Result, force, JobType, Jobs
  <2>2. CASE ~(j.phase \in {"term_requested", "tree_draining"} /\ t >= deadline(j))
    <3>1. r = Result(j, "none")
      BY ZenonT(40), <1>4, <2>2 DEF poll
    <3>2. r.job = j /\ r.action = "none"
      BY SMTT(40), SMTT(41), <3>1 DEF Result
    <3>3. r.job.phase \in {"term_requested", "tree_draining"} => t <= deadline(r.job)
      BY SMTT(40), SMTT(41), <1>1, <2>2, <3>2
    <3> QED BY ZenonT(40), <1>4, <3>2, <3>3
  <2> QED BY ZenonT(40), <2>1, <2>2
<1> QED BY ZenonT(40), <1>2, <1>3, <1>4

\* The end of a pass: a kill timeout that has passed is acted on.
LEMMA PollLate == ASSUME IInv, IInv', LateInv, Poll PROVE LateInv'
<1> DEFINE r == poll(job, Gen, now, is_tree_empty)
           forced == force(r.job, Gen)
<1>1. /\ pc' = "arm" /\ pc = "poll" /\ UNCHANGED <<config, now, wake>> /\ Numbers /\ Numbers'
  BY ZenonT(40), NumbersType, NumbersNext DEF Poll, Pass, IInv
<1>2. Horizon' <= now' /\ Horizon' = now /\ Horizon = now
  BY <1>1 DEF Horizon, Numbers
<1>3. is_tree_empty \in BOOLEAN
  BY ZenonT(40) DEF is_tree_empty
<1>4. /\ r.job.phase # "none" => r.job.generation = Gen
      /\ r.job.phase \in {"term_requested", "tree_draining"} => now <= deadline(r.job)
      /\ is_tree_empty => r.job.phase \notin {"term_requested", "tree_draining"}
      /\ r.action = "send_kill" => /\ forced.job.phase = "force_kill_requested"
                                   /\ forced.job.generation = Gen
  BY ZenonT(40), <1>1, <1>3, PolledJob DEF Numbers, LateInv, FreshJob
<1>5. StartsMet /\ FreshJob
  BY <1>1 DEF LateInv
<1>6. CASE st # "REQUEST_STOP"
  <2>1. UNCHANGED <<root, desc, st, job, pending, due, latest, launched, tick, action_due>>
    BY ZenonT(40), <1>6 DEF Poll, proc_vars, policy_vars, stamp_vars
  <2>2. FreshJob'
    BY ZenonT(40), <1>5, <2>1 DEF FreshJob, Has_process
  <2>3. StartsMet'
    BY <1>1, <1>2, <1>5, <2>1
    DEF StartsMet, Starting, Watched, RestartPlanned, Has_process, start_due, heartbeat_due
  <2>4. KillMet'
    BY <1>6, <2>1 DEF KillMet, Terminating
  <2> QED BY <1>1, <1>2, <2>2, <2>3, <2>4 DEF LateInv
<1>7. CASE st = "REQUEST_STOP" /\ ~Has_process /\ is_tree_empty
  <2>1. execute_penddingtasks("REQUEST_STOP", r.job)
    BY ZenonT(40), <1>7 DEF Poll
  <2>2. ~desc
    BY <1>7 DEF is_tree_empty
  <2>3. /\ (root' = "alive" /\ launched' = now /\ st' = "STARTING" /\ job' = NewJob) \/ root' = "gone"
        /\ job' = NewJob \/ job' = r.job
        /\ ~desc'
        /\ pending' => latest'.when = now \/ (pending /\ UNCHANGED <<due, latest, root>>)
    BY ZenonT(40), <1>1, <2>1, <2>2, TaskLate
  <2> HIDE DEF r
  <2>4. FreshJob'
    BY ZenonT(40), <1>4, <2>3, NewJobLate DEF FreshJob, Has_process
  <2>5. ~Watched' /\ (Starting' => launched' = now /\ config.start_timeout >= 0)
    BY ZenonT(40), <1>1, <2>3 DEF Watched, Starting, Has_process
  <2>6. RestartPlanned' => now <= Max2(due', latest'.when)
    <3>1. CASE latest'.when = now
      BY SMTT(40), SMTT(41), <1>1, <3>1 DEF Max2, Numbers
    <3>2. CASE pending /\ UNCHANGED <<due, latest, root>>
      <4>1. RestartPlanned' => RestartPlanned
        BY ZenonT(40), <3>2 DEF RestartPlanned, Has_process
      <4> QED BY <1>2, <1>5, <3>2, <4>1 DEF StartsMet
    <3> QED BY ZenonT(40), <2>3, <3>1, <3>2 DEF RestartPlanned
  <2>7. StartsMet'
    BY SMTT(40), SMTT(41), <1>1, <1>2, <2>5, <2>6 DEF StartsMet, start_due, Numbers
  <2>8. KillMet'
    BY ZenonT(40), <1>4, <1>7, <2>3, NewJobLate DEF KillMet, Terminating
  <2> QED BY <1>1, <1>2, <2>4, <2>7, <2>8 DEF LateInv
<1>8. CASE st = "REQUEST_STOP" /\ (Has_process \/ ~is_tree_empty)
  <2>1. /\ IF r.action = "send_kill"
            THEN /\ job' = forced.job /\ desc' = FALSE
                 /\ root' = IF root = "alive" THEN "zombie" ELSE root
            ELSE job' = r.job /\ UNCHANGED <<root, desc>>
        /\ UNCHANGED <<st, policy_vars>>
    BY ZenonT(40), <1>8 DEF Poll
  <2> HIDE DEF r, forced
  <2>2. /\ job'.phase # "none" => job'.generation = Gen
        /\ job'.phase \in {"term_requested", "tree_draining"} => now <= deadline(job')
    BY <1>4, <2>1
  <2>3. desc' = FALSE \/ desc' = desc
    BY <2>1, Zenon
  <2>4. (root' = "gone" <=> root = "gone") /\ UNCHANGED <<st, pending, due, latest>>
    BY <2>1 DEF policy_vars
  <2>5. FreshJob'
    <3>1. pending' => ~desc'
      BY <1>5, <2>3, <2>4 DEF FreshJob
    <3> QED BY <1>8, <2>2, <2>4, <3>1 DEF FreshJob
  <2>6. ~Starting' /\ ~Watched' /\ (RestartPlanned' => RestartPlanned)
    BY ZenonT(40), <1>8, <2>4 DEF Starting, Watched, RestartPlanned, Has_process
  <2>7. StartsMet' /\ KillMet'
    BY SMTT(40), <1>1, <1>2, <1>5, <2>2, <2>4, <2>6 DEF StartsMet, KillMet, Terminating
  <2> QED BY <1>1, <1>2, <2>5, <2>7 DEF LateInv
<1> QED BY <1>6, <1>7, <1>8

\* The timer is armed: at most the default wait after now.
LEMMA ArmLate == ASSUME IInv, IInv', LateInv, Arm PROVE LateInv'
<1>1. /\ pc' = "idle" /\ pc = "arm" /\ UNCHANGED <<config, now>> /\ Numbers /\ Numbers'
      /\ UNCHANGED <<root, desc, st, job, pending, due, latest, launched, tick, action_due>>
  BY NumbersType, NumbersNext DEF Arm, Pass, IInv, proc_vars, policy_vars, stamp_vars
<1>2. PICK busy \in BOOLEAN : \E w \in next_wait(busy) : wake' = now + w
  BY DEF Arm
<1>3. PICK w \in next_wait(busy) : wake' = now + w
  BY ZenonT(40), <1>2
<1>4. Horizon' <= now /\ Horizon = now /\ Horizon' \in Int
  <2>1. w \in Nat /\ w <= DefaultWait
    BY WaitType DEF IInv
  <2> QED BY <1>1, <1>3, <2>1 DEF Horizon, Numbers
<1>5. FreshJob'
  BY ZenonT(40), <1>1 DEF LateInv, FreshJob, Has_process
<1>6. /\ due \in Int /\ deadline(job) \in Int /\ start_due \in Int /\ heartbeat_due \in Int
      /\ Max2(due, latest.when) \in Int /\ now \in Int
  BY SMTT(40), <1>1, DeadlineTypes DEF IInv, Numbers, Max2
<1>7. /\ Starting' = Starting /\ Watched' = Watched /\ RestartPlanned' = RestartPlanned
      /\ start_due' = start_due /\ heartbeat_due' = heartbeat_due
  BY ZenonT(40), <1>1 DEF Starting, Watched, RestartPlanned, Has_process, start_due, heartbeat_due
<1>8. StartsMet'
  BY SMTT(40), SMTT(41), <1>1, <1>4, <1>6, <1>7 DEF LateInv, StartsMet
<1>9. KillMet'
  BY SMTT(40), SMTT(41), <1>1, <1>4, <1>6 DEF LateInv, KillMet, Terminating
<1> QED BY ZenonT(40), <1>1, <1>4, <1>5, <1>8, <1>9 DEF LateInv

\* Processes, the clock and stuttering: no deadline changes, and the clock
\* stands still but at "idle", where the horizon depends on the timer only.
LEMMA QuietLate ==
  ASSUME IInv, IInv', LateInv,
         UNCHANGED <<config, wake, pc, st, job, pending, due, latest, launched, tick, action_due>>,
         root' = "gone" <=> root = "gone", pending => ~desc',
         now' = now \/ (pc = "idle" /\ now <= now')
  PROVE  LateInv'
<1>1. Numbers /\ Numbers'
  BY ZenonT(40), NumbersType, NumbersNext DEF IInv
<1>2. Horizon' = Horizon /\ Horizon' <= now'
  BY <1>1 DEF Horizon, LateInv, Numbers
<1>3. FreshJob'
  BY ZenonT(40) DEF LateInv, FreshJob, Has_process
<1>4. /\ Starting' = Starting /\ Watched' = Watched /\ RestartPlanned' = RestartPlanned
      /\ start_due' = start_due /\ heartbeat_due' = heartbeat_due
      /\ Terminating' = Terminating
  BY ZenonT(40) DEF Starting, Watched, RestartPlanned, Has_process, start_due, heartbeat_due, Terminating
<1>5. pc' # "plan" => StartsMet'
  BY ZenonT(40), <1>2, <1>4 DEF LateInv, StartsMet
<1>6. pc' \in {"idle", "arm"} => KillMet'
  BY <1>2, <1>4 DEF LateInv, KillMet
<1> QED BY ZenonT(40), <1>2, <1>3, <1>5, <1>6 DEF LateInv

\* Every step keeps the deadlines met.
LEMMA NextLate == IInv /\ LateInv /\ [Next]_vars => LateInv'
<1> SUFFICES ASSUME IInv, LateInv, [Next]_vars PROVE LateInv'
  OBVIOUS
<1>0. IInv'
  BY NextIInv
<1>1. CASE Commands
  BY <1>0, <1>1, CommandsLate
<1>2. CASE Maintenance
  BY ZenonT(40), <1>0, <1>2, ReapLate, DueLate, PollLate, ArmLate DEF Maintenance
<1>3. CASE Processes
  <2>1. UNCHANGED <<config, now, wake, pc, st, job, pending, due, latest, launched, tick, action_due>>
    BY ZenonT(40), <1>3 DEF Processes, RootExit, Fork, DescendantsExit, clock_vars, policy_vars, stamp_vars
  <2>2. root' = "gone" <=> root = "gone"
    BY ZenonT(40), <1>3 DEF Processes, RootExit, Fork, DescendantsExit
  <2>3. pending => root = "gone" /\ ~desc
    BY ZenonT(40) DEF IInv, Paired, LateInv, FreshJob
  <2>4. root = "gone" /\ ~desc => ~desc'
    BY SMTT(40), <1>3 DEF Processes, RootExit, Fork, DescendantsExit
  <2> QED BY ZenonT(40), <1>0, <2>1, <2>2, <2>3, <2>4, QuietLate
<1>4. CASE Advance \/ UNCHANGED vars
  <2>1. /\ UNCHANGED <<config, wake, pc, st, job, pending, due, latest, launched, tick, action_due>>
        /\ UNCHANGED <<root, desc>>
    BY ZenonT(40), <1>4 DEF Advance, vars, proc_vars, clock_vars, policy_vars, stamp_vars
  <2>2. now' = now \/ (pc = "idle" /\ now <= now')
    <3>1. now \in Nat
      BY ZenonT(40) DEF IInv, TypeOK
    <3> QED BY SMTT(40), SMTT(41), <1>4, <3>1 DEF Advance, vars, clock_vars
  <2>3. pending => ~desc'
    BY <2>1 DEF LateInv, FreshJob
  <2> QED BY ZenonT(40), <1>0, <2>1, <2>2, <2>3, QuietLate
<1> QED BY <1>1, <1>2, <1>3, <1>4 DEF Next

\* Every kill, start, heartbeat and restart deadline is acted on at most one
\* default wait late, for all configurations, although commands and exits move
\* deadlines without arming the timer.
THEOREM NoDeadlineIsLate == Spec => []NeverLate
<1>1. IInv /\ LateInv => NeverLate
  <2> SUFFICES ASSUME IInv, LateInv, pc = "idle"
               PROVE  /\ Terminating => wake <= deadline(job) + DefaultWait
                      /\ Starting /\ config.action # "reboot" => wake <= start_due + DefaultWait
                      /\ Watched /\ config.action # "reboot" => wake <= heartbeat_due + DefaultWait
                      /\ RestartPlanned => wake <= Max2(due, latest.when) + DefaultWait
    BY ZenonT(40) DEF NeverLate
  <2>1. /\ due \in Int /\ deadline(job) \in Int /\ start_due \in Int /\ heartbeat_due \in Int
        /\ Max2(due, latest.when) \in Int /\ wake \in Int /\ DefaultWait \in Int
    BY NumbersType, DeadlineTypes DEF IInv, Numbers, Max2
  <2>2. StartsMet /\ KillMet /\ Horizon = wake - DefaultWait
    BY DEF LateInv, Horizon
  <2> QED BY SMTT(40), SMTT(41), <2>1, <2>2 DEF StartsMet, KillMet
<1> QED BY <1>1, InitIInv, InitLate, NextIInv, NextLate, PTL DEF Spec
=============================================================================
