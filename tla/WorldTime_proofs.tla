----------------------------- MODULE WorldTime_proofs -----------------------------
(***************************************************************************)
(* Theorems about the clock and the initialization of a Vault, for any     *)
(* processes, ticks, amounts, revisions and number of faults.              *)
(***************************************************************************)
EXTENDS WorldTime, TLAPS

(* An advance that has not computed its tick yet knows its amount.         *)
CallOK ==
  \A p \in Procs : step[p] = "fetch" =>
    call[p] \in [kind : {"advance"}, minutes : Int, expected : Revisions, known : Nat]

TInv == InitTypeOK /\ ClockTypeOK /\ CallOK

LEMMA CandidateType ==
  ASSUME NEW p \in Procs, ClockTypeOK
  PROVE  Candidate(p) \in Clocks
<1>1. target[p] \in Int /\ base[p] \in Clocks \union {NoClock}
  BY DEF ClockTypeOK
<1> QED BY <1>1 DEF Candidate, Clocks

LEMMA TypeInit ==
  ASSUME Init
  PROVE  TInv
<1>1. InitTypeOK
  BY DEF Init, VaultInit, InitTypeOK, Tails, Layout
<1>2. step = [p \in Procs |-> "idle"]
  BY DEF Init, VaultInit
<1>3. ClockTypeOK
  BY <1>2 DEF Init, ClockInit, ClockTypeOK
<1>4. CallOK
  BY <1>2 DEF CallOK
<1> QED BY <1>1, <1>3, <1>4 DEF TInv

LEMMA GotoType ==
  ASSUME NEW p \in Procs, NEW s \in {"idle"} \union InitSteps \union ClockSteps, TInv, Goto(p, s)
  PROVE  /\ step' \in [Procs -> {"idle"} \union InitSteps \union ClockSteps]
         /\ s # "fetch" /\ call' = call => CallOK'
BY DEF TInv, ClockTypeOK, CallOK, Goto

LEMMA EndsType ==
  ASSUME NEW p \in Procs, TInv, Ends(p)
  PROVE  /\ step' \in [Procs -> {"idle"} \union InitSteps \union ClockSteps]
         /\ call' \in [Procs -> Calls \union {NoCall}]
         /\ base' \in [Procs -> Clocks \union {NoClock}]
         /\ checked' \in [Procs -> Clocks \union {NoClock}]
         /\ target' \in [Procs -> Int]
         /\ named' \in [Procs -> Clocks \union {NoClock}]
         /\ CallOK'
BY DEF TInv, ClockTypeOK, CallOK, Ends, Goto

LEMMA EndsInitType ==
  ASSUME NEW p \in Procs, NEW id \in Procs \union {NoMarker}, TInv, EndsInit(p, id)
  PROVE  /\ step' \in [Procs -> {"idle"} \union InitSteps \union ClockSteps]
         /\ told' \in [Procs -> Procs \union {NoMarker}]
         /\ found' \in [Procs -> Procs \union {NoMarker}]
         /\ mode' \in [Procs -> {"commit", "repair"}]
         /\ at' \in [Procs -> 1..Len(Layout)]
         /\ UNCHANGED call => CallOK'
BY DEF TInv, ClockTypeOK, InitTypeOK, CallOK, EndsInit, Goto, Layout

LEMMA TailsStay ==
  ASSUME tail \in Tails
  PROVE  TailAfterAppend \in Tails /\ TailAfterFragment \subseteq Tails
BY DEF Tails, TailAfterAppend, TailAfterFragment

(* `dnd init` keeps the types, and touches nothing of the clock.           *)
LEMMA InitStepTyped ==
  ASSUME TInv, UNCHANGED clockVars, tail' \in Tails, faults' \in Nat,
         dirs' \subseteq Managed, lost' = lost, marker' \in Procs \union {NoMarker},
         step' \in [Procs -> {"idle"} \union InitSteps \union ClockSteps],
         CallOK',
         told' \in [Procs -> Procs \union {NoMarker}],
         found' \in [Procs -> Procs \union {NoMarker}],
         mode' \in [Procs -> {"commit", "repair"}],
         at' \in [Procs -> 1..Len(Layout)]
  PROVE  TInv'
<1>1. InitTypeOK'
  BY DEF TInv, InitTypeOK
<1>2. ClockTypeOK'
  BY DEF TInv, ClockTypeOK, clockVars
<1> QED BY <1>1, <1>2 DEF TInv

LEMMA InitStepType ==
  ASSUME TInv, NEW p \in Procs, InitStep(p) \/ CrashInit(p), UNCHANGED clockVars
  PROVE  TInv'
<1> DEFINE Types == /\ tail \in Tails /\ faults \in Nat /\ dirs \subseteq Managed
                    /\ marker \in Procs \union {NoMarker}
           Typed == /\ told \in [Procs -> Procs \union {NoMarker}]
                    /\ found \in [Procs -> Procs \union {NoMarker}]
                    /\ mode \in [Procs -> {"commit", "repair"}]
                    /\ at \in [Procs -> 1..Len(Layout)]
<1>0. Types /\ Typed /\ UNCHANGED call
  BY DEF TInv, InitTypeOK, clockVars
<1>a. ASSUME NEW id \in Procs \union {NoMarker}, EndsInit(p, id), Types', UNCHANGED lost
      PROVE  TInv'
  BY <1>0, <1>a, EndsInitType, InitStepTyped
<1>b. ASSUME NEW s \in InitSteps, Goto(p, s), Types', Typed', UNCHANGED lost
      PROVE  TInv'
  <2>1. s # "fetch"
    BY DEF InitSteps
  <2>2. s \in {"idle"} \union InitSteps \union ClockSteps /\ Goto(p, s) /\ call' = call
    BY <1>0, <1>b
  <2>3. step' \in [Procs -> {"idle"} \union InitSteps \union ClockSteps]
    BY <2>2, GotoType
  <2>4. CallOK'
    BY <2>1, <2>2, GotoType
  <2> QED BY <1>b, <2>3, <2>4, InitStepTyped
<1>1. CASE InspectVault(p)
  <2>1. CASE marker # NoMarker /\ Missing = {}
    BY <1>0, <1>1, <2>1, <1>a DEF InspectVault
  <2>2. CASE ~(marker # NoMarker /\ Missing = {})
    <3>1. Goto(p, "ensure") /\ Types' /\ UNCHANGED lost
      BY <1>0, <1>1, <2>2 DEF InspectVault
    <3>2. Typed'
      BY <1>0, <1>1, <2>2 DEF InspectVault
    <3> QED BY <3>1, <3>2, <1>b DEF InitSteps
  <2> QED BY <2>1, <2>2
<1>2. CASE EnsureDirectory(p)
  <2>1. CASE Layout[at[p]] \in dirs \/ Parent(Layout[at[p]]) \subseteq dirs
    <3>1. Layout[at[p]] \in Managed /\ at[p] \in 1..Len(Layout)
      BY <1>0 DEF Managed, Layout
    <3>2. Types' /\ UNCHANGED <<lost, mode, found, told>>
      BY <1>0, <1>2, <2>1, <3>1 DEF EnsureDirectory
    <3>3. at' = [at EXCEPT ![p] = IF @ < Len(Layout) THEN @ + 1 ELSE @]
      BY <1>2, <2>1 DEF EnsureDirectory
    <3>4. (IF at[p] < Len(Layout) THEN at[p] + 1 ELSE at[p]) \in 1..Len(Layout)
      BY <3>1 DEF Layout
    <3>5. Typed'
      BY <1>0, <3>2, <3>3, <3>4
    <3>6. PICK s \in InitSteps : Goto(p, s)
      BY <1>2, <2>1 DEF EnsureDirectory, InitSteps
    <3> QED BY <3>2, <3>5, <3>6, <1>b
  <2>2. CASE ~(Layout[at[p]] \in dirs \/ Parent(Layout[at[p]]) \subseteq dirs)
    BY <1>0, <1>2, <2>2, <1>a DEF EnsureDirectory
  <2> QED BY <2>1, <2>2
<1>3. CASE AppendInitIntent(p)
  <2>1. Goto(p, "ensure") /\ Types' /\ Typed' /\ UNCHANGED lost
    BY <1>0, <1>3, TailsStay DEF AppendInitIntent, initVars
  <2> QED BY <2>1, <1>b DEF InitSteps
<1>4. CASE PublishMarker(p)
  <2>1. Goto(p, "reread") /\ Types' /\ Typed' /\ UNCHANGED lost
    BY <1>0, <1>4 DEF PublishMarker, PublishedMarker
  <2> QED BY <2>1, <1>b DEF InitSteps
<1>5. CASE RereadMarker(p)
  <2>1. CASE mode[p] = "repair" /\ found[p] # marker
    BY <1>0, <1>5, <2>1, <1>a DEF RereadMarker
  <2>2. CASE ~(mode[p] = "repair" /\ found[p] # marker)
    <3>1. Goto(p, "committed") /\ Types' /\ UNCHANGED lost
      BY <1>0, <1>5, <2>2 DEF RereadMarker
    <3>2. Typed'
      BY <1>0, <1>5, <2>2 DEF RereadMarker
    <3> QED BY <3>1, <3>2, <1>b DEF InitSteps
  <2> QED BY <2>1, <2>2
<1>6. CASE AppendInitCommitted(p)
  <2>1. EndsInit(p, found[p]) /\ Types' /\ UNCHANGED lost
    BY <1>0, <1>6, TailsStay DEF AppendInitCommitted
  <2> QED BY <1>0, <2>1, <1>a
<1>7. CASE CrashInit(p)
  <2>1. tail' \in Tails /\ EndsInit(p, NoMarker)
    BY <1>0, <1>7, TailsStay DEF CrashInit
  <2>2. faults' \in Nat /\ UNCHANGED <<dirs, marker, lost>>
    BY <1>0, <1>7 DEF CrashInit, Fault
  <2> QED BY <1>0, <2>1, <2>2, <1>a
<1> QED BY <1>1, <1>2, <1>3, <1>4, <1>5, <1>6, <1>7 DEF InitStep

(* A call starts with numbers for its tick, its amount and its revision.   *)
LEMMA BeginType ==
  ASSUME ClockAssumption, TInv, NEW p \in Procs, BeginCall(p)
  PROVE  TInv'
<1> USE DEF TInv, ClockTypeOK, InitTypeOK, initVars
<1>0. ASSUME NEW c \in Calls, NEW s \in ClockSteps, Begins(p, c, s), target' \in [Procs -> Int],
             s = "fetch" =>
               c \in [kind : {"advance"}, minutes : Int, expected : Revisions, known : Nat]
      PROVE  TInv'
  BY <1>0 DEF Begins, Goto, CallOK, Idle
<1>1. ASSUME NEW t \in Ticks, BeginInit(p, t)
      PROVE  TInv'
  <2>1. [kind |-> "init", tick |-> t] \in Calls /\ t \in Int
    BY DEF Calls, ClockAssumption
  <2> QED BY <1>0, <1>1, <2>1 DEF BeginInit, ClockSteps
<1>2. ASSUME NEW t \in Ticks, NEW r \in 0..MaxRevision - 1, SetWorldTime(p, t, r)
      PROVE  TInv'
  <2>1. CASE r = 0
    BY <1>1, <1>2, <2>1 DEF SetWorldTime
  <2>2. CASE r # 0
    <3>1. t \in Int /\ r \in Revisions
      BY <2>2 DEF ClockAssumption, Revisions
    <3>2. [kind |-> "set", tick |-> t, expected |-> r] \in Calls
      BY <3>1 DEF Calls
    <3> QED BY <1>0, <1>2, <2>2, <3>1, <3>2, SMTT(30) DEF SetWorldTime, ClockSteps
  <2> QED BY <2>1, <2>2
<1>3. ASSUME NEW m \in Minutes, NEW r \in 1..MaxRevision - 1, AdvanceWorldTime(p, m, r)
      PROVE  TInv'
  <2>1. m \in Int /\ r \in Revisions /\ latest \in Nat
    BY DEF ClockAssumption, Revisions
  <2>2. [kind |-> "advance", minutes |-> m, expected |-> r, known |-> latest]
          \in [kind : {"advance"}, minutes : Int, expected : Revisions, known : Nat]
    BY <2>1
  <2> QED BY <1>0, <1>3, <2>2 DEF AdvanceWorldTime, ClockSteps, Calls
<1> QED BY <1>1, <1>2, <1>3 DEF BeginCall, TimeInitCommand

(* What a step of a call on the clock has to keep.                         *)
LEMMA ClockStepTyped ==
  ASSUME TInv, NEW p \in Procs, NEW s \in ClockSteps \ {"fetch"}, Goto(p, s),
         UNCHANGED <<initVars, faults, call>>, tail' \in Tails,
         clock' \in Clocks \union {NoClock}, latest' \in Nat,
         base' \in [Procs -> Clocks \union {NoClock}],
         checked' \in [Procs -> Clocks \union {NoClock}],
         target' \in [Procs -> Int],
         named' \in [Procs -> Clocks \union {NoClock}]
  PROVE  TInv'
<1>1. InitTypeOK'
  BY DEF TInv, InitTypeOK, initVars
<1>2. step' \in [Procs -> {"idle"} \union InitSteps \union ClockSteps] /\ CallOK'
  <2>1. s \in {"idle"} \union InitSteps \union ClockSteps /\ s # "fetch" /\ call' = call
    OBVIOUS
  <2> QED BY <2>1, GotoType
<1>3. ClockTypeOK'
  BY <1>2 DEF TInv, ClockTypeOK
<1> QED BY <1>1, <1>2, <1>3 DEF TInv

LEMMA CallEnds ==
  ASSUME TInv, NEW p \in Procs, Ends(p), UNCHANGED <<initVars, clock, latest>>,
         tail' \in Tails, faults' \in Nat
  PROVE  TInv'
<1>1. InitTypeOK'
  BY DEF TInv, InitTypeOK, initVars
<1>2. ClockTypeOK' /\ CallOK'
  BY EndsType DEF TInv, ClockTypeOK
<1> QED BY <1>1, <1>2 DEF TInv

LEMMA ClockStepType ==
  ASSUME TInv, NEW p \in Procs, ClockStep(p)
  PROVE  TInv'
<1> DEFINE Types == /\ clock \in Clocks \union {NoClock} /\ latest \in Nat
                    /\ base \in [Procs -> Clocks \union {NoClock}]
                    /\ checked \in [Procs -> Clocks \union {NoClock}]
                    /\ target \in [Procs -> Int]
                    /\ named \in [Procs -> Clocks \union {NoClock}]
<1>0. tail \in Tails /\ faults \in Nat /\ Candidate(p) \in Clocks /\ Types
  BY CandidateType DEF TInv, InitTypeOK, ClockTypeOK
<1>a. ASSUME NEW s \in ClockSteps \ {"fetch"}, Goto(p, s), UNCHANGED <<initVars, faults, call>>,
             tail' \in Tails, Types'
      PROVE  TInv'
  BY <1>a, ClockStepTyped
<1>1. CASE Fails(p)
  BY <1>0, <1>1, CallEnds DEF Fails
<1>2. CASE FetchTick(p) /\ ~Fails(p)
  <2>1. clock.tick \in Int /\ call[p].minutes \in Int
    BY <1>0, <1>2 DEF FetchTick, TInv, CallOK, Clocks
  <2>2. Goto(p, "load") /\ UNCHANGED <<initVars, tail, faults, call, clock, base, named, latest, checked>>
    BY <1>2 DEF FetchTick
  <2>3. target' \in [Procs -> Int]
    BY <1>0, <1>2, <2>1 DEF FetchTick, Advance
  <2> QED BY <1>0, <2>2, <2>3, <1>a DEF ClockSteps
<1>3. CASE LoadClock(p) /\ ~Fails(p)
  <2>1. /\ Goto(p, "announce") /\ base' = [base EXCEPT ![p] = clock]
        /\ UNCHANGED <<initVars, tail, faults, call, clock, target, named, latest, checked>>
    BY <1>3 DEF LoadClock
  <2>2. Types'
    BY <1>0, <2>1
  <2> QED BY <1>0, <2>1, <2>2, <1>a DEF ClockSteps
<1>4. CASE AppendClockIntent(p)
  <2>1. /\ Goto(p, "recheck") /\ named' = [named EXCEPT ![p] = Candidate(p)]
        /\ UNCHANGED <<initVars, faults, call, clock, base, target, latest, checked>>
    BY <1>4 DEF AppendClockIntent, Announce
  <2>2. Types' /\ tail' \in Tails
    BY <1>0, <1>4, <2>1, TailsStay DEF AppendClockIntent
  <2> QED BY <2>1, <2>2, <1>a DEF ClockSteps
<1>5. CASE RecheckClock(p) /\ ~Fails(p)
  <2>1. /\ Goto(p, "replace") /\ checked' = [checked EXCEPT ![p] = clock]
        /\ UNCHANGED <<initVars, tail, faults, call, clock, base, target, named, latest>>
    BY <1>5 DEF RecheckClock
  <2>2. Types'
    BY <1>0, <2>1
  <2> QED BY <1>0, <2>1, <2>2, <1>a DEF ClockSteps
<1>6. CASE ReplaceClock(p)
  <2>1. /\ Goto(p, "readback") /\ clock' = Candidate(p)
        /\ UNCHANGED <<initVars, tail, faults, call, base, target, named, checked>>
    BY <1>6 DEF ReplaceClock
  <2>2. latest' \in Nat
    BY <1>0, <1>6 DEF ReplaceClock, Clocks
  <2> QED BY <1>0, <2>1, <2>2, <1>a DEF ClockSteps
<1>7. CASE ReadBackClock(p) /\ ~Fails(p)
  <2>1. Goto(p, "finalize") /\ UNCHANGED <<initVars, tail, faults, clockVars>>
    BY <1>7 DEF ReadBackClock
  <2> QED BY <1>0, <2>1, <1>a DEF clockVars, ClockSteps
<1>8. CASE AppendClockCommitted(p)
  <2>1. Ends(p) /\ UNCHANGED <<initVars, faults, clock, latest>> /\ tail' \in Tails
    BY <1>0, <1>8, TailsStay DEF AppendClockCommitted
  <2> QED BY <1>0, <2>1, CallEnds
<1> QED BY <1>1, <1>2, <1>3, <1>4, <1>5, <1>6, <1>7, <1>8 DEF ClockStep

LEMMA TypeStep ==
  ASSUME ClockAssumption, TInv, [Next]_vars
  PROVE  TInv'
<1>0. tail \in Tails /\ faults \in Nat
  BY DEF TInv, InitTypeOK
<1>1. ASSUME NEW p \in Procs, CrashCall(p)
      PROVE  TInv'
  <2>1. tail' \in Tails /\ Ends(p) /\ UNCHANGED <<initVars, clock, latest>>
    BY <1>0, <1>1, TailsStay DEF CrashCall
  <2>2. faults' \in Nat
    BY <1>0, <1>1 DEF CrashCall, Fault
  <2> QED BY <2>1, <2>2, CallEnds
<1>2. ASSUME NEW d \in Managed, DirectoryLost(d), UNCHANGED clockVars
      PROVE  TInv'
  <2>1. InitTypeOK'
    BY <1>2 DEF DirectoryLost, Fault, TInv, InitTypeOK
  <2>2. ClockTypeOK' /\ CallOK'
    BY <1>2 DEF DirectoryLost, TInv, ClockTypeOK, CallOK, clockVars
  <2> QED BY <2>1, <2>2 DEF TInv
<1>3. CASE RepairAuditTail
  BY <1>3 DEF RepairAuditTail, TInv, InitTypeOK, ClockTypeOK, CallOK, Tails, initVars, clockVars
<1>4. CASE UNCHANGED vars
  BY <1>4 DEF vars, TInv, InitTypeOK, ClockTypeOK, CallOK, initVars, clockVars
<1> QED BY <1>1, <1>2, <1>3, <1>4, InitStepType, BeginType, ClockStepType DEF Next

(* The types of a clock, its calls and the state of `dnd init` in every    *)
(* reachable state.                                                        *)
THEOREM ClockTypeCorrect == ASSUME ClockAssumption PROVE Spec => []TypeOK
<1> DEFINE Flags == explained \in BOOLEAN /\ raced \in BOOLEAN
<1>1. Init => Flags
  BY DEF Init, ClockInit
<1>2. Flags /\ [Next]_vars => Flags'
  <2>1. ASSUME NEW p \in Procs, Flags, ClockStep(p) \/ CrashCall(p) \/ BeginCall(p)
        PROVE  Flags'
    BY <2>1 DEF ClockStep, FetchTick, LoadClock, AppendClockIntent, RecheckClock, ReplaceClock,
                ReadBackClock, AppendClockCommitted, CrashCall, Fails, BeginCall, TimeInitCommand,
                SetWorldTime, AdvanceWorldTime, BeginInit, Begins, clockVars
  <2> QED BY <2>1 DEF Next, RepairAuditTail, clockVars, vars
<1>3. TInv /\ Flags => TypeOK
  BY DEF TInv, TypeOK
<1> QED BY <1>1, <1>2, <1>3, TypeInit, TypeStep, PTL DEF Spec

-----------------------------------------------------------------------------
(* The two commands share the processes and the log, and no other state.   *)
LEMMA ClockLeavesInit ==
  ASSUME NEW p \in Procs, BeginCall(p) \/ ClockStep(p) \/ CrashCall(p)
  PROVE  /\ UNCHANGED initVars
         /\ step[p] \in {"idle"} \union ClockSteps
         /\ \E s \in {"idle"} \union ClockSteps : Goto(p, s)
<1>1. CASE BeginCall(p)
  BY <1>1 DEF BeginCall, TimeInitCommand, SetWorldTime, AdvanceWorldTime, BeginInit, Begins, Idle,
              ClockSteps
<1>2. CASE ClockStep(p)
  BY <1>2 DEF ClockStep, FetchTick, LoadClock, AppendClockIntent, RecheckClock, ReplaceClock,
              ReadBackClock, AppendClockCommitted, Fails, Ends, ClockSteps
<1>3. CASE CrashCall(p)
  BY <1>3 DEF CrashCall, Ends
<1> QED BY <1>1, <1>2, <1>3

LEMMA InitLeavesClock ==
  ASSUME NEW p \in Procs, InitStep(p) \/ CrashInit(p)
  PROVE  /\ step[p] \in {"idle"} \union InitSteps
         /\ \E s \in {"idle"} \union InitSteps : Goto(p, s)
<1>1. CASE InspectVault(p)
  BY <1>1 DEF InspectVault, EndsInit, InitSteps
<1>2. CASE EnsureDirectory(p)
  BY <1>2 DEF EnsureDirectory, EndsInit, InitSteps
<1>3. CASE AppendInitIntent(p) \/ PublishMarker(p)
  BY <1>3 DEF AppendInitIntent, PublishMarker, InitSteps
<1>4. CASE RereadMarker(p) \/ AppendInitCommitted(p)
  BY <1>4 DEF RereadMarker, AppendInitCommitted, EndsInit, InitSteps
<1>5. CASE CrashInit(p)
  BY <1>5 DEF CrashInit, EndsInit
<1> QED BY <1>1, <1>2, <1>3, <1>4, <1>5 DEF InitStep

-----------------------------------------------------------------------------
(* One identity: what a run of `dnd init` has read or reported is what     *)
(* campaign.yaml holds, as a marker never replaces another.                *)
IdInv == \A p \in Procs : found[p] \in {NoMarker, marker} /\ told[p] \in {NoMarker, marker}

LEMMA IdInitStep ==
  ASSUME TInv, IdInv, NEW p \in Procs, InitStep(p) \/ CrashInit(p)
  PROVE  IdInv'
<1>0. /\ found \in [Procs -> Procs \union {NoMarker}]
      /\ told \in [Procs -> Procs \union {NoMarker}]
  BY DEF TInv, InitTypeOK
<1>a. ASSUME NEW id \in {NoMarker, marker}, EndsInit(p, id), marker' = marker
      PROVE  IdInv'
  BY <1>0, <1>a DEF IdInv, EndsInit
<1>1. CASE InspectVault(p)
  <2>1. CASE marker # NoMarker /\ Missing = {}
    BY <1>1, <2>1, <1>a DEF InspectVault
  <2>2. CASE ~(marker # NoMarker /\ Missing = {})
    BY <1>0, <1>1, <2>2 DEF InspectVault, IdInv
  <2> QED BY <2>1, <2>2
<1>2. CASE EnsureDirectory(p)
  <2>1. marker' = marker
    BY <1>2 DEF EnsureDirectory
  <2>2. EndsInit(p, NoMarker) \/ UNCHANGED <<found, told>>
    BY <1>2 DEF EnsureDirectory
  <2> QED BY <2>1, <2>2, <1>a DEF IdInv
<1>3. CASE AppendInitIntent(p)
  BY <1>3 DEF AppendInitIntent, initVars, IdInv
<1>4. CASE PublishMarker(p)
  BY <1>4 DEF PublishMarker, PublishedMarker, IdInv
<1>5. CASE RereadMarker(p)
  <2>1. CASE mode[p] = "repair" /\ found[p] # marker
    BY <1>5, <2>1, <1>a DEF RereadMarker
  <2>2. CASE ~(mode[p] = "repair" /\ found[p] # marker)
    BY <1>0, <1>5, <2>2 DEF RereadMarker, IdInv
  <2> QED BY <2>1, <2>2
<1>6. CASE AppendInitCommitted(p)
  <2>1. EndsInit(p, found[p]) /\ marker' = marker /\ found[p] \in {NoMarker, marker}
    BY <1>6 DEF AppendInitCommitted, IdInv
  <2> QED BY <2>1, <1>a
<1>7. CASE CrashInit(p)
  BY <1>7, <1>a DEF CrashInit
<1> QED BY <1>1, <1>2, <1>3, <1>4, <1>5, <1>6, <1>7 DEF InitStep

(* OneIdentity for any number of runs, crashes and lost directories.       *)
THEOREM OneIdentityHolds == ASSUME ClockAssumption PROVE Spec => []OneIdentity
<1>1. Init => IdInv
  BY DEF Init, VaultInit, IdInv
<1>2. TInv /\ IdInv /\ [Next]_vars => IdInv'
  <2>1. ASSUME TInv, IdInv, Next
        PROVE  IdInv'
    <3>1. ASSUME UNCHANGED <<marker, found, told>>
          PROVE  IdInv'
      BY <2>1, <3>1 DEF IdInv
    <3>2. ASSUME NEW p \in Procs, BeginCall(p) \/ ClockStep(p) \/ CrashCall(p)
          PROVE  IdInv'
      BY <3>1, <3>2, ClockLeavesInit DEF initVars
    <3>3. ASSUME NEW d \in Managed, DirectoryLost(d)
          PROVE  IdInv'
      BY <3>1, <3>3 DEF DirectoryLost
    <3>4. CASE RepairAuditTail
      BY <3>1, <3>4 DEF RepairAuditTail, initVars
    <3> QED BY <2>1, <3>2, <3>3, <3>4, IdInitStep DEF Next
  <2> QED BY <2>1 DEF vars, initVars, IdInv
<1>3. IdInv => OneIdentity
  BY DEF IdInv, OneIdentity
<1> QED BY <1>1, <1>2, <1>3, TypeInit, TypeStep, PTL DEF Spec

-----------------------------------------------------------------------------
(* The log explains the clock: from its intent to its write, a call does   *)
(* not change what its candidate is computed from.                         *)
NamedInv ==
  /\ explained = TRUE
  /\ \A p \in Procs : step[p] \in {"recheck", "replace"} => named[p] = Candidate(p)

LEMMA OthersKept ==
  ASSUME NEW p \in Procs, NEW q \in Procs, q # p, TInv, BeginCall(p) \/ ClockStep(p) \/ CrashCall(p)
  PROVE  /\ step'[q] = step[q] /\ named'[q] = named[q] /\ base'[q] = base[q]
         /\ target'[q] = target[q] /\ checked'[q] = checked[q] /\ call'[q] = call[q]
<1>1. CASE BeginCall(p)
  BY <1>1 DEF BeginCall, TimeInitCommand, SetWorldTime, AdvanceWorldTime, BeginInit, Begins, Goto,
              TInv, ClockTypeOK
<1>2. CASE Ends(p)
  BY <1>2 DEF Ends, Goto, TInv, ClockTypeOK
<1>3. CASE ClockStep(p) /\ ~Ends(p)
  BY <1>3 DEF ClockStep, FetchTick, LoadClock, AppendClockIntent, Announce, RecheckClock,
              ReplaceClock, ReadBackClock, AppendClockCommitted, Fails, Goto, clockVars,
              TInv, ClockTypeOK
<1> QED BY <1>1, <1>2, <1>3 DEF CrashCall

LEMMA NamedStep ==
  ASSUME TInv, NamedInv, NEW p \in Procs, BeginCall(p) \/ ClockStep(p) \/ CrashCall(p)
  PROVE  NamedInv'
<1>0. /\ step \in [Procs -> {"idle"} \union InitSteps \union ClockSteps]
      /\ named \in [Procs -> Clocks \union {NoClock}]
  BY DEF TInv, ClockTypeOK
<1>1. explained' = TRUE
  BY DEF NamedInv, BeginCall, TimeInitCommand, SetWorldTime, AdvanceWorldTime, BeginInit, Begins,
         CrashCall, ClockStep, FetchTick, LoadClock, AppendClockIntent, RecheckClock, ReplaceClock,
         ReadBackClock, AppendClockCommitted, Fails, clockVars
<1>2. ASSUME NEW q \in Procs, q # p, step'[q] \in {"recheck", "replace"}
      PROVE  named'[q] = Candidate(q)'
  BY <1>2, OthersKept DEF NamedInv, Candidate
<1>3. ASSUME step'[p] \in {"recheck", "replace"}
      PROVE  named'[p] = Candidate(p)'
  <2>1. ~BeginCall(p) /\ ~CrashCall(p)
    BY <1>0, <1>3 DEF BeginCall, TimeInitCommand, SetWorldTime, AdvanceWorldTime, BeginInit, Begins,
                      CrashCall, Ends, Goto
  <2>2. AppendClockIntent(p) \/ RecheckClock(p)
    BY <1>0, <1>3, <2>1 DEF ClockStep, FetchTick, LoadClock, ReplaceClock, ReadBackClock,
                            AppendClockCommitted, Fails, Ends, Goto
  <2>3. CASE AppendClockIntent(p)
    BY <1>0, <2>3 DEF AppendClockIntent, Announce, Candidate
  <2>4. CASE RecheckClock(p)
    BY <1>0, <1>3, <2>4 DEF RecheckClock, Fails, Ends, Goto, NamedInv, Candidate
  <2> QED BY <2>2, <2>3, <2>4
<1> QED BY <1>1, <1>2, <1>3 DEF NamedInv

(* LogExplainsClock for any number of processes and faults.                *)
THEOREM LogExplainsHolds == ASSUME ClockAssumption PROVE Spec => []LogExplainsClock
<1>1. Init => NamedInv
  BY DEF Init, VaultInit, ClockInit, NamedInv
<1>2. TInv /\ NamedInv /\ [Next]_vars => NamedInv'
  <2>1. ASSUME TInv, NamedInv, Next
        PROVE  NamedInv'
    <3>1. ASSUME UNCHANGED <<step, clockVars>>
          PROVE  NamedInv'
      BY <2>1, <3>1 DEF NamedInv, Candidate, clockVars
    <3>2. ASSUME NEW p \in Procs, InitStep(p) \/ CrashInit(p), UNCHANGED clockVars
          PROVE  NamedInv'
      <4>1. PICK s \in {"idle"} \union InitSteps : Goto(p, s)
        BY <3>2, InitLeavesClock
      <4>2. \A q \in Procs : step'[q] \in {"recheck", "replace"} => step'[q] = step[q]
        BY <2>1, <4>1 DEF Goto, InitSteps, TInv, ClockTypeOK
      <4> QED BY <2>1, <3>2, <4>2 DEF NamedInv, Candidate, clockVars
    <3>3. ASSUME NEW d \in Managed, DirectoryLost(d), UNCHANGED clockVars
          PROVE  NamedInv'
      BY <3>1, <3>3 DEF DirectoryLost
    <3>4. CASE RepairAuditTail
      BY <3>1, <3>4 DEF RepairAuditTail
    <3> QED BY <2>1, <3>2, <3>3, <3>4, NamedStep DEF Next
  <2> QED BY <2>1 DEF vars, clockVars, NamedInv, Candidate
<1>3. NamedInv => LogExplainsClock
  BY DEF NamedInv, LogExplainsClock
<1> QED BY <1>1, <1>2, <1>3, TypeInit, TypeStep, PTL DEF Spec

-----------------------------------------------------------------------------
(* The clock advances as asked.  While no file has changed behind a second *)
(* read, revisions only grow, so that a revision a caller has seen never   *)
(* comes back with another tick: the tick computed from the early read of  *)
(* an advance is right whenever its revision is still the current one.     *)
AdvanceSeen(p) == call[p].kind = "advance" /\ call[p].expected <= call[p].known

RevisionInv ==
  /\ clock = NoClock => latest = 0
  /\ clock # NoClock => clock.rev = latest

AmountInv(p) ==
  AdvanceSeen(p) =>
    /\ step[p] \in {"fetch", "load"} => call[p].expected \in Int /\ call[p].expected <= latest
    /\ step[p] = "load" /\ clock # NoClock /\ clock.rev = call[p].expected =>
         target[p] = clock.tick + call[p].minutes
    /\ step[p] \in {"announce", "recheck", "replace"} =>
         target[p] = base[p].tick + call[p].minutes

AdvanceInv ==
  /\ \A p \in Procs : step[p] = "replace" => checked[p] = base[p]
  /\ raced \in BOOLEAN
  /\ ~raced => RevisionInv /\ \A p \in Procs : AmountInv(p)

(* A write nothing has come between stores the next revision.              *)
LEMMA NextRevision ==
  ASSUME TInv, AdvanceInv, NEW p \in Procs, ReplaceClock(p), ~raced'
  PROVE  /\ ~raced /\ clock = base[p] /\ clock' = Candidate(p)
         /\ clock' # NoClock /\ clock'.rev = latest + 1 /\ latest' = latest + 1
<1>1. ~raced /\ clock = base[p] /\ clock' = Candidate(p)
  BY DEF ReplaceClock, AdvanceInv
<1>2. clock \in Clocks \union {NoClock} /\ latest \in Nat /\ target[p] \in Int
  BY DEF TInv, ClockTypeOK
<1>3. RevisionInv
  BY <1>1 DEF AdvanceInv
<1>4. Candidate(p).rev = latest + 1
  BY <1>1, <1>2, <1>3 DEF Candidate, RevisionInv, Clocks
<1>5. Candidate(p) \in Clocks
  BY CandidateType DEF TInv
<1>6. latest' = latest + 1
  BY <1>2, <1>4 DEF ReplaceClock
<1>7. NoClock \notin Clocks
  BY ClockAssumption DEF ClockAssumption
<1> QED BY <1>1, <1>4, <1>5, <1>6, <1>7

LEMMA RevisionStep ==
  ASSUME TInv, AdvanceInv, NEW p \in Procs, BeginCall(p) \/ ClockStep(p) \/ CrashCall(p), ~raced'
  PROVE  RevisionInv'
<1>1. CASE ReplaceClock(p)
  BY <1>1, NextRevision DEF RevisionInv
<1>2. CASE ~ReplaceClock(p)
  <2>1. UNCHANGED <<clock, latest, raced>>
    BY <1>2 DEF BeginCall, TimeInitCommand, SetWorldTime, AdvanceWorldTime, BeginInit, Begins,
                CrashCall, ClockStep, FetchTick, LoadClock, AppendClockIntent, RecheckClock,
                ReadBackClock, AppendClockCommitted, Fails, clockVars
  <2> QED BY <2>1 DEF AdvanceInv, RevisionInv
<1> QED BY <1>1, <1>2

(* A call beside the one that moves: a write makes its revision an old one.*)
LEMMA AmountOthers ==
  ASSUME TInv, AdvanceInv, NEW p \in Procs, BeginCall(p) \/ ClockStep(p) \/ CrashCall(p), ~raced',
         NEW q \in Procs, q # p
  PROVE  AmountInv(q)'
<1>1. /\ step'[q] = step[q] /\ base'[q] = base[q] /\ target'[q] = target[q] /\ call'[q] = call[q]
      /\ latest \in Nat
  BY OthersKept DEF TInv, ClockTypeOK
<1>2. CASE ReplaceClock(p)
  <2>1. /\ ~raced /\ clock' # NoClock /\ clock'.rev = latest + 1 /\ latest' = latest + 1
    BY <1>2, NextRevision
  <2>2. AmountInv(q)
    BY <2>1 DEF AdvanceInv
  <2> QED BY <1>1, <2>1, <2>2 DEF AmountInv, AdvanceSeen
<1>3. CASE ~ReplaceClock(p)
  <2>1. UNCHANGED <<clock, latest, raced>>
    BY <1>3 DEF BeginCall, TimeInitCommand, SetWorldTime, AdvanceWorldTime, BeginInit, Begins,
                CrashCall, ClockStep, FetchTick, LoadClock, AppendClockIntent, RecheckClock,
                ReadBackClock, AppendClockCommitted, Fails, clockVars
  <2> QED BY <1>1, <2>1 DEF AdvanceInv, AmountInv, AdvanceSeen
<1> QED BY <1>2, <1>3

(* The call that moves.                                                    *)
LEMMA AmountOwn ==
  ASSUME ClockAssumption, TInv, AdvanceInv, NEW p \in Procs,
         BeginCall(p) \/ ClockStep(p) \/ CrashCall(p), ~raced'
  PROVE  AmountInv(p)'
<1>0. /\ step \in [Procs -> {"idle"} \union InitSteps \union ClockSteps]
      /\ call \in [Procs -> Calls \union {NoCall}] /\ latest \in Nat
      /\ base \in [Procs -> Clocks \union {NoClock}] /\ target \in [Procs -> Int]
  BY DEF TInv, ClockTypeOK
<1>r. ~raced
  BY DEF BeginCall, TimeInitCommand, SetWorldTime, AdvanceWorldTime, BeginInit, Begins,
         CrashCall, ClockStep, FetchTick, LoadClock, AppendClockIntent, RecheckClock,
         ReplaceClock, ReadBackClock, AppendClockCommitted, Fails, clockVars, AdvanceInv
<1>s. AmountInv(p)
  BY <1>r DEF AdvanceInv
<1>1. CASE Ends(p)
  BY <1>0, <1>1 DEF Ends, Goto, AmountInv
<1>2. CASE BeginCall(p)
  <2>1. ASSUME NEW t \in Ticks, BeginInit(p, t)
        PROVE  AmountInv(p)'
    <3>1. call'[p] = [kind |-> "init", tick |-> t]
      BY <1>0, <2>1 DEF BeginInit, Begins
    <3>2. ~AdvanceSeen(p)'
      BY <3>1 DEF AdvanceSeen
    <3> QED BY <3>2 DEF AmountInv
  <2>2. ASSUME NEW t \in Ticks, NEW r \in 0..MaxRevision - 1, SetWorldTime(p, t, r), r # 0
        PROVE  AmountInv(p)'
    <3>1. call'[p] = [kind |-> "set", tick |-> t, expected |-> r]
      BY <1>0, <2>2 DEF SetWorldTime, Begins
    <3>2. ~AdvanceSeen(p)'
      BY <3>1 DEF AdvanceSeen
    <3> QED BY <3>2 DEF AmountInv
  <2>3. ASSUME NEW m \in Minutes, NEW r \in 1..MaxRevision - 1, AdvanceWorldTime(p, m, r)
        PROVE  AmountInv(p)'
    <3>1. /\ call'[p] = [kind |-> "advance", minutes |-> m, expected |-> r, known |-> latest]
          /\ step'[p] = "fetch" /\ latest' = latest
      BY <1>0, <2>3 DEF AdvanceWorldTime, Begins, Goto
    <3>2. AdvanceSeen(p)' => r <= latest
      BY <3>1 DEF AdvanceSeen
    <3>3. r \in Int
      OBVIOUS
    <3> QED BY <3>1, <3>2, <3>3 DEF AmountInv
  <2>4. \A t \in Ticks : SetWorldTime(p, t, 0) => BeginInit(p, t)
    BY DEF SetWorldTime
  <2> QED BY <1>2, <2>1, <2>2, <2>3, <2>4 DEF BeginCall, TimeInitCommand
<1>3. CASE FetchTick(p) /\ ~Ends(p)
  <2>1. /\ target'[p] = clock.tick + call[p].minutes /\ step[p] = "fetch" /\ step'[p] = "load"
        /\ UNCHANGED <<clock, call, latest>>
    BY <1>0, <1>3 DEF FetchTick, Fails, Goto, Advance
  <2> QED BY <1>s, <2>1 DEF AmountInv, AdvanceSeen
<1>4. CASE LoadClock(p) /\ ~Ends(p)
  <2>1. /\ base'[p] = clock /\ step[p] = "load" /\ step'[p] = "announce" /\ Acceptable(p)
        /\ UNCHANGED <<clock, call, latest, target>>
    BY <1>0, <1>4 DEF LoadClock, Fails, Goto
  <2>2. AdvanceSeen(p) => clock # NoClock /\ clock.rev = call[p].expected
    BY <2>1 DEF Acceptable, AdvanceSeen
  <2> QED BY <1>s, <2>1, <2>2 DEF AmountInv, AdvanceSeen
<1>5. CASE AppendClockIntent(p) \/ (RecheckClock(p) /\ ~Ends(p))
  <2>1. /\ step[p] \in {"announce", "recheck"} /\ step'[p] \in {"recheck", "replace"}
        /\ UNCHANGED <<base, call, target>>
    BY <1>0, <1>5 DEF AppendClockIntent, RecheckClock, Fails, Goto
  <2> QED BY <1>s, <2>1 DEF AmountInv, AdvanceSeen
<1>6. CASE ReplaceClock(p) \/ (ReadBackClock(p) /\ ~Ends(p))
  <2>1. step'[p] \in {"readback", "finalize"}
    BY <1>0, <1>6 DEF ReplaceClock, ReadBackClock, Fails, Goto
  <2> QED BY <2>1 DEF AmountInv
<1> QED BY <1>1, <1>2, <1>3, <1>4, <1>5, <1>6 DEF ClockStep, CrashCall, AppendClockCommitted

LEMMA AdvanceStep ==
  ASSUME ClockAssumption, TInv, AdvanceInv, NEW p \in Procs,
         BeginCall(p) \/ ClockStep(p) \/ CrashCall(p)
  PROVE  AdvanceInv'
<1>0. /\ step \in [Procs -> {"idle"} \union InitSteps \union ClockSteps]
      /\ checked \in [Procs -> Clocks \union {NoClock}]
  BY DEF TInv, ClockTypeOK
<1>1. raced' \in BOOLEAN
  BY DEF AdvanceInv, BeginCall, TimeInitCommand, SetWorldTime, AdvanceWorldTime, BeginInit, Begins,
         CrashCall, ClockStep, FetchTick, LoadClock, AppendClockIntent, RecheckClock,
         ReplaceClock, ReadBackClock, AppendClockCommitted, Fails, clockVars
<1>2. ASSUME NEW q \in Procs, q # p, step'[q] = "replace"
      PROVE  checked'[q] = base'[q]
  BY <1>2, OthersKept DEF AdvanceInv
<1>3. ASSUME step'[p] = "replace"
      PROVE  checked'[p] = base'[p]
  <2>1. RecheckClock(p) /\ ~Ends(p)
    BY <1>0, <1>3 DEF BeginCall, TimeInitCommand, SetWorldTime, AdvanceWorldTime, BeginInit, Begins,
                      CrashCall, ClockStep, FetchTick, LoadClock, AppendClockIntent, ReplaceClock,
                      ReadBackClock, AppendClockCommitted, Fails, Ends, Goto
  <2> QED BY <1>0, <2>1 DEF RecheckClock, Fails
<1>4. ~raced' => RevisionInv' /\ \A q \in Procs : AmountInv(q)'
  BY RevisionStep, AmountOthers, AmountOwn
<1> QED BY <1>1, <1>2, <1>3, <1>4 DEF AdvanceInv

(* What else happens leaves the clock and its calls alone.                 *)
LEMMA AdvanceElse ==
  ASSUME AdvanceInv, UNCHANGED clockVars,
         \A q \in Procs : step'[q] = step[q] \/ step'[q] \notin ClockSteps
  PROVE  AdvanceInv'
<1>1. \A q \in Procs : step'[q] \in ClockSteps => step'[q] = step[q]
  OBVIOUS
<1>2. RevisionInv => RevisionInv'
  BY DEF RevisionInv, clockVars
<1>3. ASSUME NEW q \in Procs, AmountInv(q)
      PROVE  AmountInv(q)'
  BY <1>1, <1>3 DEF AmountInv, AdvanceSeen, clockVars, ClockSteps
<1> QED BY <1>1, <1>2, <1>3 DEF AdvanceInv, clockVars, ClockSteps

LEMMA AdvanceNext ==
  ASSUME ClockAssumption, TInv, AdvanceInv, [Next]_vars
  PROVE  AdvanceInv'
<1>1. ASSUME NEW p \in Procs, InitStep(p) \/ CrashInit(p), UNCHANGED clockVars
      PROVE  AdvanceInv'
  <2>1. PICK s \in {"idle"} \union InitSteps : Goto(p, s)
    BY <1>1, InitLeavesClock
  <2>2. \A q \in Procs : step'[q] = step[q] \/ step'[q] \notin ClockSteps
    BY <2>1 DEF Goto, InitSteps, ClockSteps, TInv, ClockTypeOK
  <2> QED BY <1>1, <2>2, AdvanceElse
<1>2. ASSUME NEW d \in Managed, DirectoryLost(d), UNCHANGED clockVars
      PROVE  AdvanceInv'
  BY <1>2, AdvanceElse DEF DirectoryLost
<1>3. CASE RepairAuditTail \/ UNCHANGED vars
  BY <1>3, AdvanceElse DEF RepairAuditTail, vars
<1> QED BY <1>1, <1>2, <1>3, AdvanceStep DEF Next

LEMMA AdvanceRight ==
  ASSUME TInv, AdvanceInv, [Next]_vars, NEW p \in Procs, Replaces(p), ~raced'
  PROVE  /\ clock'.rev = IF clock = NoClock THEN 1 ELSE clock.rev + 1
         /\ call[p].kind = "advance" /\ call[p].expected <= call[p].known =>
              clock'.tick = clock.tick + call[p].minutes
<1>0. step \in [Procs -> {"idle"} \union InitSteps \union ClockSteps]
  BY DEF TInv, ClockTypeOK
<1>1. ReplaceClock(p)
  <2>1. ASSUME NEW q \in Procs, NEW s, Goto(q, s), s # "readback"
        PROVE  FALSE
    BY <1>0, <2>1 DEF Replaces, Goto
  <2>2. ASSUME NEW q \in Procs, InitStep(q) \/ CrashInit(q)
        PROVE  FALSE
    BY <2>1, <2>2, InitLeavesClock DEF InitSteps
  <2>3. ASSUME NEW q \in Procs, BeginCall(q) \/ ClockStep(q) \/ CrashCall(q), ~ReplaceClock(q)
        PROVE  FALSE
    BY <2>1, <2>3 DEF BeginCall, TimeInitCommand, SetWorldTime, AdvanceWorldTime, BeginInit, Begins,
                      CrashCall, ClockStep, FetchTick, LoadClock, AppendClockIntent, RecheckClock,
                      ReadBackClock, AppendClockCommitted, Fails, Ends
  <2>4. ASSUME NEW q \in Procs, ReplaceClock(q), q # p
        PROVE  FALSE
    BY <1>0, <2>4 DEF ReplaceClock, Replaces, Goto
  <2>5. ~UNCHANGED step
    BY DEF Replaces
  <2> QED BY <2>2, <2>3, <2>4, <2>5 DEF Next, DirectoryLost, RepairAuditTail, vars
<1>2. ~raced /\ clock = base[p] /\ clock' = Candidate(p) /\ step[p] = "replace"
  BY <1>1, NextRevision DEF ReplaceClock
<1>3. AmountInv(p)
  BY <1>2 DEF AdvanceInv
<1> QED BY <1>2, <1>3 DEF Candidate, AmountInv, AdvanceSeen

(* ClockAdvances for any number of processes, ticks, amounts and faults.   *)
THEOREM ClockAdvancesHolds == ASSUME ClockAssumption PROVE Spec => ClockAdvances
<1>1. Init => AdvanceInv
  BY DEF Init, VaultInit, ClockInit, AdvanceInv, RevisionInv, AmountInv
<1>2. TInv /\ AdvanceInv /\ [Next]_vars =>
        [\A p \in Procs : Replaces(p) /\ ~raced' =>
           /\ clock'.rev = IF clock = NoClock THEN 1 ELSE clock.rev + 1
           /\ call[p].kind = "advance" /\ call[p].expected <= call[p].known =>
                clock'.tick = clock.tick + call[p].minutes]_vars
  BY AdvanceRight
<1> QED BY <1>1, <1>2, TypeInit, TypeStep, AdvanceNext, PTL DEF Spec, ClockAdvances

-----------------------------------------------------------------------------
(* The marker comes last: a run that has passed a directory found it or    *)
(* made it, and what is gone since is among the lost ones.                 *)
Known == dirs \union lost
PassedInv ==
  \A p \in Procs :
    /\ step[p] \in {"ensure", "intent"} => \A i \in 1..at[p] - 1 : Layout[i] \in Known
    /\ step[p] \in {"idle"} \union ClockSteps => at[p] = 1
    /\ step[p] = "publish" => Managed \subseteq Known

LEMMA LayoutSize == Len(Layout) = 6 /\ Managed = {Layout[i] : i \in 1..6}
BY DEF Layout, Managed

LEMMA PassedInit ==
  ASSUME TInv, PassedInv, NEW p \in Procs, InitStep(p) \/ CrashInit(p)
  PROVE  PassedInv'
<1>0. /\ step \in [Procs -> {"idle"} \union InitSteps \union ClockSteps]
      /\ at \in [Procs -> 1..6]
  BY LayoutSize DEF TInv, InitTypeOK, ClockTypeOK
<1>1. Known \subseteq Known'
  BY DEF Known, InitStep, InspectVault, EnsureDirectory, AppendInitIntent, PublishMarker,
         RereadMarker, AppendInitCommitted, CrashInit, initVars
<1>2. ASSUME NEW q \in Procs, q # p
      PROVE  step'[q] = step[q] /\ at'[q] = at[q]
  BY <1>0, <1>2 DEF InitStep, InspectVault, EnsureDirectory, AppendInitIntent, PublishMarker,
                    RereadMarker, AppendInitCommitted, CrashInit, EndsInit, Goto, initVars
<1> DEFINE Passed == /\ step[p] \in {"ensure", "intent"} =>
                          \A i \in 1..at[p] - 1 : Layout[i] \in Known
                     /\ step[p] \in {"idle"} \union ClockSteps => at[p] = 1
                     /\ step[p] = "publish" => Managed \subseteq Known
<1>3. Passed
  BY DEF PassedInv
<1>a. ASSUME NEW id, EndsInit(p, id)
      PROVE  Passed'
  BY <1>0, <1>a DEF EndsInit, Goto
<1>4. ASSUME InspectVault(p)
      PROVE  Passed'
  <2>1. CASE marker # NoMarker /\ Missing = {}
    BY <1>4, <2>1, <1>a DEF InspectVault
  <2>2. CASE ~(marker # NoMarker /\ Missing = {})
    <3>1. step'[p] = "ensure" /\ at'[p] = 1
      BY <1>0, <1>3, <1>4, <2>2 DEF InspectVault, Goto
    <3> QED BY <3>1 DEF ClockSteps
  <2> QED BY <2>1, <2>2
<1>5. ASSUME EnsureDirectory(p)
      PROVE  Passed'
  <2>1. CASE EndsInit(p, NoMarker)
    BY <2>1, <1>a
  <2>2. CASE ~EndsInit(p, NoMarker)
    <3>1. /\ step[p] = "ensure" /\ dirs' = dirs \union {Layout[at[p]]} /\ lost' = lost
          /\ at'[p] = IF at[p] < 6 THEN at[p] + 1 ELSE at[p]
      BY <1>0, <1>5, <2>2, LayoutSize DEF EnsureDirectory
    <3>2. step'[p] = CASE at[p] = 2 -> "intent"
                       [] at[p] = 6 -> IF mode[p] = "commit" THEN "publish" ELSE "reread"
                       [] OTHER -> "ensure"
      BY <1>0, <1>5, <2>2, LayoutSize DEF EnsureDirectory, Goto, AuditDirectories
    <3>3. \A i \in 1..at[p] : Layout[i] \in Known'
      <4>1. \A i \in 1..at[p] - 1 : Layout[i] \in Known'
        BY <1>1, <1>3, <3>1
      <4>2. Layout[at[p]] \in Known'
        BY <3>1 DEF Known
      <4> QED BY <1>0, <4>1, <4>2
    <3>4. step'[p] \in {"ensure", "intent"} => at'[p] = at[p] + 1
      BY <1>0, <3>1, <3>2
    <3>5. step'[p] = "publish" => at[p] = 6
      BY <1>0, <3>2
    <3>6. step'[p] \in {"ensure", "intent", "publish", "reread"}
      BY <1>0, <3>2
    <3>7. step'[p] \notin {"idle"} \union ClockSteps
      BY <3>6 DEF ClockSteps
    <3>8. step'[p] \in {"ensure", "intent"} => \A i \in 1..at'[p] - 1 : Layout[i] \in Known'
      BY <1>0, <3>3, <3>4
    <3>9. step'[p] = "publish" => Managed \subseteq Known'
      BY <3>3, <3>5, LayoutSize
    <3> QED BY <3>7, <3>8, <3>9
  <2> QED BY <2>1, <2>2
<1>6. ASSUME AppendInitIntent(p)
      PROVE  Passed'
  <2>1. step[p] = "intent" /\ step'[p] = "ensure" /\ at'[p] = at[p]
    BY <1>0, <1>6 DEF AppendInitIntent, Goto, initVars
  <2> QED BY <1>1, <1>3, <2>1 DEF ClockSteps
<1>7. ASSUME PublishMarker(p)
      PROVE  Passed'
  <2>1. step'[p] = "reread"
    BY <1>0, <1>7 DEF PublishMarker, Goto
  <2> QED BY <2>1 DEF ClockSteps
<1>8. ASSUME RereadMarker(p)
      PROVE  Passed'
  <2>1. EndsInit(p, NoMarker) \/ step'[p] = "committed"
    BY <1>0, <1>8 DEF RereadMarker, Goto
  <2> QED BY <1>a, <2>1 DEF ClockSteps
<1>9. ASSUME AppendInitCommitted(p) \/ CrashInit(p)
      PROVE  Passed'
  BY <1>9, <1>a DEF AppendInitCommitted, CrashInit
<1> HIDE DEF Passed
<1>10. Passed'
  BY <1>4, <1>5, <1>6, <1>7, <1>8, <1>9 DEF InitStep
<1> QED BY <1>1, <1>2, <1>10 DEF PassedInv, Passed

LEMMA PassedElse ==
  ASSUME TInv, PassedInv, Known \subseteq Known', UNCHANGED at,
         \A p \in Procs : step'[p] = step[p]
                         \/ /\ step[p] \in {"idle"} \union ClockSteps
                            /\ step'[p] \in {"idle"} \union ClockSteps
  PROVE  PassedInv'
<1>1. {"ensure", "intent", "publish"} \cap ({"idle"} \union ClockSteps) = {}
  BY DEF ClockSteps
<1> QED BY <1>1 DEF PassedInv

LEMMA PassedNext ==
  ASSUME TInv, PassedInv, [Next]_vars
  PROVE  PassedInv'
<1>1. ASSUME NEW p \in Procs, BeginCall(p) \/ ClockStep(p) \/ CrashCall(p)
      PROVE  PassedInv'
  <2>1. /\ UNCHANGED initVars /\ step[p] \in {"idle"} \union ClockSteps
        /\ \E s \in {"idle"} \union ClockSteps : Goto(p, s)
    BY <1>1, ClockLeavesInit
  <2>2. \A q \in Procs : step'[q] = step[q]
                         \/ /\ step[q] \in {"idle"} \union ClockSteps
                            /\ step'[q] \in {"idle"} \union ClockSteps
    BY <2>1 DEF Goto, TInv, ClockTypeOK
  <2> QED BY <2>1, <2>2, PassedElse DEF initVars, Known
<1>2. ASSUME NEW d \in Managed, DirectoryLost(d)
      PROVE  PassedInv'
  BY <1>2, PassedElse DEF DirectoryLost, Known
<1>3. CASE RepairAuditTail \/ UNCHANGED vars
  BY <1>3, PassedElse DEF RepairAuditTail, vars, initVars, Known
<1> QED BY <1>1, <1>2, <1>3, PassedInit DEF Next

(* MarkerLast for any number of runs, crashes and lost directories.        *)
THEOREM MarkerLastHolds == ASSUME ClockAssumption PROVE Spec => MarkerLast
<1>1. Init => PassedInv
  BY DEF Init, VaultInit, PassedInv
<1>2. ASSUME TInv, PassedInv, [Next]_vars, marker' # marker
      PROVE  Missing \subseteq lost
  <2>1. PICK p \in Procs : PublishMarker(p)
    <3>1. \A p \in Procs : BeginCall(p) \/ ClockStep(p) \/ CrashCall(p) => UNCHANGED marker
      BY ClockLeavesInit DEF initVars
    <3>2. \A p \in Procs : InitStep(p) \/ CrashInit(p) => PublishMarker(p) \/ UNCHANGED marker
      BY DEF InitStep, InspectVault, EnsureDirectory, AppendInitIntent, RereadMarker,
             AppendInitCommitted, CrashInit, initVars
    <3> QED BY <1>2, <3>1, <3>2 DEF Next, DirectoryLost, RepairAuditTail, vars, initVars
  <2> QED BY <1>2, <2>1 DEF PassedInv, PublishMarker, Known, Missing
<1>3. TInv /\ PassedInv /\ [Next]_vars => [marker' # marker => Missing \subseteq lost]_marker
  BY <1>2
<1> QED BY <1>1, <1>3, TypeInit, TypeStep, PassedNext, PTL DEF Spec, MarkerLast
=============================================================================
