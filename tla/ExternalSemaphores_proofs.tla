---------------------- MODULE ExternalSemaphores_proofs ----------------------
(***************************************************************************)
(* The double buffer with callers that do not interrupt each other: signal *)
(* handlers alone, or polled callers alone.  However many there are, and   *)
(* whatever statement of the drain they interrupt, no write leaves the     *)
(* array and no recorded index is lost, signalled twice or made up.  With  *)
(* both kinds neither holds (the run external_nested).                     *)
(***************************************************************************)
EXTENDS ExternalSemaphores, FiniteSetTheorems, TLAPS

OneKind == Caller = Handler \/ Caller = Polled

Slot == 1..SemaphoresToSignalSize

\* A caller has counted its index and not yet written it.
Writing == \E c \in Caller : at[c] = "write"

\* The slots of a buffer that hold an index still to be signalled: in the
\* buffer in use all that are written, in the other what the drain has left.
Live(b) == IF b = inUse THEN 1..(IF Writing THEN count[b] - 1 ELSE count[b])
                        ELSE i..count[b]

Waiting(c) ==
    {x \in Buffer \X Slot : x[2] \in Live(x[1]) /\ slot[x[1]][x[2]] = c}

\* What a caller has recorded was signalled once, or is in one live slot; and
\* no live slot is free.
RecordedIsKept ==
    /\ \A c \in Caller : called[c] = signalled[c] + Cardinality(Waiting(c))
    /\ \A b \in Buffer : \A n \in Live(b) : slot[b][n] \in Caller

Types ==
    /\ inUse \in Buffer
    /\ count \in [Buffer -> 0..SemaphoresToSignalSize]
    /\ slot \in [Buffer ->
          [1..(SemaphoresToSignalSize + Cardinality(Caller)) ->
              Caller \cup {Free}]]
    /\ forced \in BOOLEAN
    /\ at \in [Caller -> {"out", "choose", "load", "store", "write", "force"}]
    /\ chosen \in [Caller -> Buffer]
    /\ kept \in [Caller -> Nat]
    /\ left \in [Caller -> 0..Calls]
    /\ interp \in {"run", "test", "flip", "loop", "reset"}
    /\ i \in Nat /\ i >= 1
    /\ called \in [Caller -> Nat]
    /\ signalled \in [Caller -> Nat]

\* Where one caller is: alone, with the buffer in use, and with room in it.
InTurn ==
    /\ \A c, d \in Caller : InCall(c) /\ InCall(d) => c = d
    /\ \A c \in Caller :
         /\ at[c] \in {"load", "store", "write"} => chosen[c] = inUse
         /\ at[c] = "load" => count[inUse] < SemaphoresToSignalSize
         /\ at[c] = "store" => /\ kept[c] = count[inUse] + 1
                               /\ kept[c] <= SemaphoresToSignalSize
         /\ at[c] = "write" => kept[c] = count[inUse] /\ kept[c] >= 1

\* Where the drain is: the other buffer is empty before the flip and drained
\* before the reset.
Drain ==
    /\ interp \in {"run", "test", "flip"} => count[Other(inUse)] = 0
    /\ interp = "reset" => i > count[Other(inUse)]

EInv == Types /\ InTurn /\ Drain /\ RecordedIsKept

-----------------------------------------------------------------------------
(* Lemmas about the buffers and the callers.                               *)

LEMMA TwoBuffers ==
    ASSUME NEW b \in Buffer
    PROVE  /\ Other(b) \in Buffer /\ Other(b) # b
           /\ \A c \in Buffer : c = b \/ c = Other(b)
<1>1. \E c \in Buffer : c # b
  BY DEF Buffer
<1>2. Other(b) \in Buffer /\ Other(b) # b
  BY <1>1 DEF Other
<1> QED BY <1>2 DEF Buffer

LEMMA Sizes ==
    /\ SemaphoresToSignalSize \in Nat /\ SemaphoresToSignalSize >= 1
    /\ Cardinality(Caller) \in Nat
    /\ Calls \in Nat /\ Calls >= 1
    /\ Free \notin Caller
BY CallersAssumption, FS_CardinalityType

\* The interpreter goes on when every call has returned.
LEMMA NobodyCalls ==
    ASSUME OneKind, Interpreting, Types
    PROVE  /\ \A c \in Caller : at[c] = "out"
           /\ ~Writing
BY DEF OneKind, Interpreting, InCall, Writing

\* A caller that is in a call is there alone.
LEMMA Alone ==
    ASSUME Types, InTurn, NEW c \in Caller, at[c] # "out"
    PROVE  \A d \in Caller : d # c => at[d] = "out"
BY DEF InTurn, InCall

LEMMA WaitingFinite ==
    ASSUME NEW c
    PROVE  IsFiniteSet(Waiting(c)) /\ Cardinality(Waiting(c)) \in Nat
<1>1. IsFiniteSet(Buffer) /\ IsFiniteSet(Slot)
  <2>1. IsFiniteSet({}) /\ Buffer = ({} \cup {"A"}) \cup {"B"}
    BY FS_EmptySet DEF Buffer
  <2>2. IsFiniteSet({} \cup {"A"})
    BY <2>1, FS_AddElement
  <2>3. IsFiniteSet(Buffer)
    BY <2>1, <2>2, FS_AddElement
  <2>4. IsFiniteSet(1..SemaphoresToSignalSize)
    BY Sizes, FS_Interval
  <2> QED BY <2>3, <2>4 DEF Slot
<1>2. IsFiniteSet(Buffer \X Slot)
  BY <1>1, FS_Product
<1>3. Waiting(c) \in SUBSET (Buffer \X Slot)
  BY DEF Waiting
<1> QED BY <1>2, <1>3, FS_Subset, FS_CardinalityType

\* What changes neither a live slot nor the history loses nothing.
LEMMA KeptSame ==
    ASSUME RecordedIsKept, \A b \in Buffer : Live(b)' = Live(b),
           UNCHANGED <<slot, called, signalled>>
    PROVE  RecordedIsKept'
<1>1. \A c : Waiting(c)' = Waiting(c)
  BY DEF Waiting
<1> QED BY <1>1 DEF RecordedIsKept

-----------------------------------------------------------------------------
(* The steps of a caller.                                                  *)

LEMMA CallStep ==
    ASSUME OneKind, EInv, NEW c \in Caller, call(c)
    PROVE  EInv'
<1>1. /\ at[c] = "out" /\ at' = [at EXCEPT ![c] = "choose"]
      /\ left[c] > 0 /\ left' = [left EXCEPT ![c] = @ - 1]
      /\ UNCHANGED <<interpVars, count, slot, forced, chosen, kept, called>>
  BY DEF call, step
<1>2. \A d \in Caller : at[d] = "out"
  BY <1>1, CallersAssumption DEF call, step, MayStep, OneKind, InCall
<1>3. \A d \in Caller : at'[d] = IF d = c THEN "choose" ELSE "out"
  BY <1>1, <1>2 DEF EInv, Types
<1>4. Types'
  <2>1. left[c] - 1 \in 0..Calls
    BY <1>1, Sizes DEF EInv, Types
  <2> QED BY <1>1, <2>1 DEF EInv, Types, interpVars
<1>5. InTurn'
  BY <1>3 DEF InTurn, InCall
<1>6. Drain'
  BY <1>1 DEF EInv, Drain, interpVars
<1>7. \A b \in Buffer : Live(b)' = Live(b)
  BY <1>1, <1>2, <1>3 DEF Live, Writing, interpVars
<1>8. RecordedIsKept'
  BY <1>1, <1>7, KeptSame DEF EInv, interpVars
<1> QED BY <1>4, <1>5, <1>6, <1>8 DEF EInv

LEMMA ChooseStep ==
    ASSUME EInv, NEW c \in Caller, choose(c)
    PROVE  EInv'
<1> DEFINE to == IF count[inUse] < SemaphoresToSignalSize
                 THEN "load" ELSE "force"
<1>1. /\ at[c] = "choose" /\ at' = [at EXCEPT ![c] = to]
      /\ chosen' = [chosen EXCEPT ![c] = inUse]
      /\ UNCHANGED <<interpVars, count, slot, forced, kept, left, called>>
  BY DEF choose, step
<1>2. \A d \in Caller : d # c => at[d] = "out"
  BY <1>1, Alone DEF EInv
<1>3. \A d \in Caller : at'[d] = IF d = c THEN to ELSE "out"
  BY <1>1, <1>2 DEF EInv, Types
<1>4. Types'
  BY <1>1 DEF EInv, Types, interpVars
<1>5. InTurn'
  <2>1. chosen'[c] = inUse /\ inUse' = inUse /\ count' = count
    BY <1>1 DEF EInv, Types, interpVars
  <2> QED BY <1>3, <2>1 DEF InTurn, InCall
<1>6. Drain'
  BY <1>1 DEF EInv, Drain, interpVars
<1>7. \A b \in Buffer : Live(b)' = Live(b)
  <2>1. ~Writing /\ ~Writing'
    BY <1>1, <1>2, <1>3 DEF Writing
  <2> QED BY <1>1, <2>1 DEF Live, interpVars
<1>8. RecordedIsKept'
  BY <1>1, <1>7, KeptSame DEF EInv, interpVars
<1> QED BY <1>4, <1>5, <1>6, <1>8 DEF EInv

LEMMA LoadStep ==
    ASSUME EInv, NEW c \in Caller, load(c)
    PROVE  EInv'
<1>1. /\ at[c] = "load" /\ at' = [at EXCEPT ![c] = "store"]
      /\ kept' = [kept EXCEPT ![c] = count[chosen[c]] + 1]
      /\ UNCHANGED <<interpVars, count, slot, forced, chosen, left, called>>
  BY DEF load, step
<1>2. \A d \in Caller : d # c => at[d] = "out"
  BY <1>1, Alone DEF EInv
<1>3. \A d \in Caller : at'[d] = IF d = c THEN "store" ELSE "out"
  BY <1>1, <1>2 DEF EInv, Types
<1>4. /\ chosen[c] = inUse /\ inUse \in Buffer
      /\ count[inUse] \in Nat /\ count[inUse] < SemaphoresToSignalSize
  BY <1>1, Sizes DEF EInv, Types, InTurn
<1>5. Types'
  <2>1. count[chosen[c]] + 1 \in Nat
    BY <1>4
  <2> QED BY <1>1, <2>1 DEF EInv, Types, interpVars
<1>6. InTurn'
  <2>1. /\ kept'[c] = count[inUse] + 1 /\ inUse' = inUse /\ count' = count
        /\ chosen' = chosen
    BY <1>1, <1>4 DEF EInv, Types, interpVars
  <2>2. kept'[c] <= SemaphoresToSignalSize
    BY <1>4, <2>1, Sizes
  <2> QED BY <1>3, <1>4, <2>1, <2>2 DEF InTurn, InCall
<1>7. Drain'
  BY <1>1 DEF EInv, Drain, interpVars
<1>8. \A b \in Buffer : Live(b)' = Live(b)
  <2>1. ~Writing /\ ~Writing'
    BY <1>1, <1>2, <1>3 DEF Writing
  <2> QED BY <1>1, <2>1 DEF Live, interpVars
<1>9. RecordedIsKept'
  BY <1>1, <1>8, KeptSame DEF EInv, interpVars
<1> QED BY <1>5, <1>6, <1>7, <1>9 DEF EInv

\* The count goes up before the slot is written: the slot is not live yet.
LEMMA StoreStep ==
    ASSUME EInv, NEW c \in Caller, store(c)
    PROVE  EInv'
<1>1. /\ at[c] = "store" /\ at' = [at EXCEPT ![c] = "write"]
      /\ count' = [count EXCEPT ![chosen[c]] = kept[c]]
      /\ UNCHANGED <<interpVars, slot, forced, chosen, kept, left, called>>
  BY DEF store, step
<1>2. \A d \in Caller : d # c => at[d] = "out"
  BY <1>1, Alone DEF EInv
<1>3. \A d \in Caller : at'[d] = IF d = c THEN "write" ELSE "out"
  BY <1>1, <1>2 DEF EInv, Types
<1>4. /\ chosen[c] = inUse /\ inUse \in Buffer /\ inUse' = inUse
      /\ count[inUse] \in Nat /\ kept[c] = count[inUse] + 1
      /\ kept[c] <= SemaphoresToSignalSize
  BY <1>1, Sizes DEF EInv, Types, InTurn, interpVars
<1>5. /\ count' \in [Buffer -> 0..SemaphoresToSignalSize]
      /\ count'[inUse] = kept[c]
      /\ \A b \in Buffer : b # inUse => count'[b] = count[b]
  <2>1. kept[c] \in 0..SemaphoresToSignalSize
    BY <1>4, Sizes
  <2> QED BY <1>1, <1>4, <2>1 DEF EInv, Types
<1>6. Types'
  BY <1>1, <1>5 DEF EInv, Types, interpVars
<1>7. InTurn'
  <2>1. kept' = kept /\ chosen' = chosen /\ kept[c] >= 1
    BY <1>1, <1>4
  <2> QED BY <1>3, <1>4, <1>5, <2>1 DEF InTurn, InCall
<1>8. Drain'
  <2>1. count'[Other(inUse)] = count[Other(inUse)]
    BY <1>4, <1>5, TwoBuffers
  <2> QED BY <1>1, <2>1 DEF EInv, Drain, interpVars
<1>9. \A b \in Buffer : Live(b)' = Live(b)
  <2>1. ~Writing /\ Writing'
    BY <1>1, <1>2, <1>3 DEF Writing
  <2>2. count'[inUse] - 1 = count[inUse]
    BY <1>4, <1>5
  <2>3. i' = i
    BY <1>1 DEF interpVars
  <2> QED BY <1>4, <1>5, <2>1, <2>2, <2>3 DEF Live
<1>10. RecordedIsKept'
  BY <1>1, <1>9, KeptSame DEF EInv, interpVars
<1> QED BY <1>6, <1>7, <1>8, <1>10 DEF EInv

\* The slot counted becomes live with the index of its caller in it.
LEMMA WriteStep ==
    ASSUME EInv, NEW c \in Caller, write(c)
    PROVE  EInv'
<1> DEFINE n == count[inUse]
<1>1. /\ at[c] = "write" /\ at' = [at EXCEPT ![c] = "force"]
      /\ \E m \in {kept[c], count[chosen[c]]} :
           slot' = [slot EXCEPT ![chosen[c]][m] = c]
      /\ called' = [called EXCEPT ![c] = @ + 1]
      /\ UNCHANGED <<interpVars, count, forced, chosen, kept, left>>
  BY DEF write, step
<1>2. \A d \in Caller : d # c => at[d] = "out"
  BY <1>1, Alone DEF EInv
<1>3. \A d \in Caller : at'[d] = IF d = c THEN "force" ELSE "out"
  BY <1>1, <1>2 DEF EInv, Types
<1>4. /\ chosen[c] = inUse /\ inUse \in Buffer /\ kept[c] = n
      /\ n \in Nat /\ n >= 1 /\ n <= SemaphoresToSignalSize
      /\ inUse' = inUse /\ i' = i /\ signalled' = signalled
  BY <1>1, Sizes DEF EInv, Types, InTurn, interpVars
<1>5. slot' = [slot EXCEPT ![inUse][n] = c]
  BY <1>1, <1>4
<1>6. \A b \in Buffer : \A m \in Slot :
        slot'[b][m] = IF b = inUse /\ m = n THEN c ELSE slot[b][m]
  BY <1>4, <1>5, Sizes DEF EInv, Types, Slot
<1>7. Types'
  <2>1. n \in 1..(SemaphoresToSignalSize + Cardinality(Caller))
    BY <1>4, Sizes
  <2>2. slot' \in [Buffer ->
          [1..(SemaphoresToSignalSize + Cardinality(Caller)) ->
              Caller \cup {Free}]]
    BY <1>4, <1>5, <2>1 DEF EInv, Types
  <2> QED BY <1>1, <2>2 DEF EInv, Types, interpVars
<1>8. InTurn'
  BY <1>3 DEF InTurn, InCall
<1>9. Drain'
  BY <1>1 DEF EInv, Drain, interpVars
<1>10. n \in Slot /\ n \notin Live(inUse)
  <2>1. Writing
    BY <1>1 DEF Writing
  <2> QED BY <1>4, <2>1, Sizes DEF Live, Slot
<1>11. ASSUME NEW b \in Buffer, NEW m \in Int
       PROVE  m \in Live(b)' <=> m \in Live(b) \/ (b = inUse /\ m = n)
  <2>1. Writing /\ ~Writing' /\ count' = count
    BY <1>1, <1>3 DEF Writing
  <2>2. CASE b = inUse
    <3>1. Live(b) = 1..(n - 1) /\ Live(b)' = 1..n
      BY <1>4, <2>1, <2>2 DEF Live
    <3> QED BY <1>4, <2>2, <3>1
  <2>3. CASE b # inUse
    BY <1>4, <2>1, <2>3 DEF Live
  <2> QED BY <2>2, <2>3
<1> HIDE DEF n
<1>12. ASSUME NEW d \in Caller, NEW x \in Buffer \X Slot
       PROVE  x \in Waiting(d)'
                <=> x \in Waiting(d) \/ (d = c /\ x = <<inUse, n>>)
  <2>1. x = <<x[1], x[2]>> /\ x[1] \in Buffer /\ x[2] \in Slot
        /\ x[2] \in Int
    BY DEF Slot
  <2>2. /\ x[2] \in Live(x[1])'
             <=> x[2] \in Live(x[1]) \/ (x[1] = inUse /\ x[2] = n)
        /\ slot'[x[1]][x[2]] =
             IF x[1] = inUse /\ x[2] = n THEN c ELSE slot[x[1]][x[2]]
    BY <2>1, <1>6, <1>11
  <2>3. x = <<inUse, n>> <=> x[1] = inUse /\ x[2] = n
    BY <2>1
  <2>4. x[1] = inUse /\ x[2] = n => x[2] \notin Live(x[1])
    BY <1>10
  <2>5. /\ x \in Waiting(d)
             <=> x[2] \in Live(x[1]) /\ slot[x[1]][x[2]] = d
        /\ x \in Waiting(d)'
             <=> x[2] \in Live(x[1])' /\ slot'[x[1]][x[2]] = d
    BY DEF Waiting
  <2> QED BY <2>2, <2>3, <2>4, <2>5
<1>13. /\ \A d \in Caller : d # c => Waiting(d)' = Waiting(d)
       /\ Waiting(c)' = Waiting(c) \cup {<<inUse, n>>}
       /\ <<inUse, n>> \notin Waiting(c)
  <2>1. \A d : /\ Waiting(d) \subseteq Buffer \X Slot
               /\ Waiting(d)' \subseteq Buffer \X Slot
    BY DEF Waiting
  <2>2. <<inUse, n>> \in Buffer \X Slot /\ <<inUse, n>> \notin Waiting(c)
    BY <1>4, <1>10 DEF Waiting
  <2> QED BY <1>12, <2>1, <2>2
<1>14. RecordedIsKept'
  <2>1. ASSUME NEW d \in Caller, d # c
        PROVE  called'[d] = signalled'[d] + Cardinality(Waiting(d)')
    BY <1>1, <1>4, <1>13, <2>1 DEF EInv, Types, RecordedIsKept
  <2>2. called'[c] = signalled'[c] + Cardinality(Waiting(c)')
    <3>1. Cardinality(Waiting(c)') = Cardinality(Waiting(c)) + 1
      BY <1>13, WaitingFinite, FS_AddElement
    <3>2. /\ called'[c] = called[c] + 1
          /\ called[c] = signalled[c] + Cardinality(Waiting(c))
          /\ signalled[c] \in Nat
      BY <1>1 DEF EInv, Types, RecordedIsKept
    <3> QED BY <1>4, <3>1, <3>2, WaitingFinite
  <2>3. ASSUME NEW b \in Buffer, NEW m \in Live(b)'
        PROVE  slot'[b][m] \in Caller
    <3>1. m \in Slot
      <4>1. count[b] \in 0..SemaphoresToSignalSize /\ i \in Nat /\ i >= 1
        BY DEF EInv, Types
      <4>2. m \in 1..count[b]
        BY <1>1, <1>4, <4>1, <2>3, Sizes DEF Live, Writing
      <4> QED BY <4>1, <4>2, Sizes DEF Slot
    <3>2. CASE b = inUse /\ m = n
      BY <1>6, <3>1, <3>2
    <3>3. CASE ~(b = inUse /\ m = n)
      <4>1. m \in Live(b)
        BY <1>11, <2>3, <3>1, <3>3 DEF Slot
      <4>2. slot'[b][m] = slot[b][m]
        BY <1>6, <3>1, <3>3
      <4> QED BY <4>1, <4>2 DEF EInv, RecordedIsKept
    <3> QED BY <3>2, <3>3
  <2> QED BY <2>1, <2>2, <2>3 DEF RecordedIsKept
<1> QED BY <1>7, <1>8, <1>9, <1>14 DEF EInv

LEMMA ForceStep ==
    ASSUME EInv, NEW c \in Caller, force(c)
    PROVE  EInv'
<1>1. /\ at[c] = "force" /\ at' = [at EXCEPT ![c] = "out"]
      /\ forced' = TRUE
      /\ UNCHANGED <<interpVars, count, slot, chosen, kept, left, called>>
  BY DEF force, step
<1>2. \A d \in Caller : d # c => at[d] = "out"
  BY <1>1, Alone DEF EInv
<1>3. \A d \in Caller : at'[d] = "out"
  BY <1>1, <1>2 DEF EInv, Types
<1>4. Types'
  BY <1>1 DEF EInv, Types, interpVars
<1>5. InTurn'
  BY <1>3 DEF InTurn, InCall
<1>6. Drain'
  BY <1>1 DEF EInv, Drain, interpVars
<1>7. \A b \in Buffer : Live(b)' = Live(b)
  <2>1. ~Writing /\ ~Writing'
    BY <1>1, <1>2, <1>3 DEF Writing
  <2> QED BY <1>1, <2>1 DEF Live, interpVars
<1>8. RecordedIsKept'
  BY <1>1, <1>7, KeptSame DEF EInv, interpVars
<1> QED BY <1>4, <1>5, <1>6, <1>8 DEF EInv

-----------------------------------------------------------------------------
(* The steps of the interpreter, which find no caller in a call.           *)

\* What a step of the drain leaves alone.
LEMMA CallersStay ==
    ASSUME OneKind, EInv, Interpreting, UNCHANGED callerVars
    PROVE  /\ \A c \in Caller : at[c] = "out" /\ at'[c] = "out"
           /\ ~Writing /\ ~Writing'
           /\ InTurn'
<1>1. \A c \in Caller : at[c] = "out"
  BY NobodyCalls DEF EInv
<1>2. \A c \in Caller : at'[c] = "out"
  BY <1>1 DEF callerVars
<1> QED BY <1>1, <1>2 DEF Writing, InTurn, InCall

\* beginCheck and testCounts move on without touching a buffer.
LEMMA TestStep ==
    ASSUME OneKind, EInv, beginCheck \/ testCounts
    PROVE  EInv'
<1>1. /\ Interpreting
      /\ UNCHANGED <<callerVars, inUse, count, slot, i, signalled>>
      /\ interp \in {"run", "test"} /\ interp' \in {"run", "test", "flip"}
      /\ forced' \in BOOLEAN
  BY DEF beginCheck, testCounts, EInv, Types
<1>2. InTurn' /\ ~Writing /\ ~Writing'
  BY <1>1, CallersStay
<1>3. Types'
  BY <1>1 DEF EInv, Types, callerVars
<1>4. Drain'
  BY <1>1 DEF EInv, Drain
<1>5. \A b \in Buffer : Live(b)' = Live(b)
  BY <1>1, <1>2 DEF Live
<1>6. RecordedIsKept'
  BY <1>1, <1>5, KeptSame DEF EInv, callerVars
<1> QED BY <1>2, <1>3, <1>4, <1>6 DEF EInv

\* The flip: the buffer that was in use is drained from its first slot.
LEMMA FlipStep ==
    ASSUME OneKind, EInv, flip
    PROVE  EInv'
<1>1. /\ Interpreting /\ interp = "flip" /\ interp' = "loop"
      /\ inUse' = Other(inUse) /\ i' = 1
      /\ UNCHANGED <<callerVars, count, slot, forced, signalled>>
  BY DEF flip
<1>2. InTurn' /\ ~Writing /\ ~Writing'
  BY <1>1, CallersStay
<1>3. /\ inUse \in Buffer /\ inUse' \in Buffer /\ inUse' # inUse
      /\ \A b \in Buffer : b = inUse \/ b = inUse'
      /\ count[inUse'] = 0
  BY <1>1, TwoBuffers DEF EInv, Types, Drain
<1>4. Types'
  BY <1>1, <1>3 DEF EInv, Types, callerVars
<1>5. Drain'
  BY <1>1 DEF Drain
<1>6. ASSUME NEW b \in Buffer PROVE Live(b)' = Live(b)
  <2>1. i \in Nat /\ i >= 1 /\ count' = count
    BY <1>1 DEF EInv, Types
  <2>2. CASE b = inUse
    BY <1>1, <1>2, <1>3, <2>1, <2>2 DEF Live
  <2>3. CASE b = inUse'
    <3>1. Live(b) = i..0 /\ Live(b)' = 1..0
      BY <1>2, <1>3, <2>1, <2>3 DEF Live
    <3> QED BY <2>1, <3>1
  <2> QED BY <1>3, <2>2, <2>3
<1>7. RecordedIsKept'
  BY <1>1, <1>6, KeptSame DEF EInv, callerVars
<1> QED BY <1>2, <1>4, <1>5, <1>7 DEF EInv

\* One turn of the loop signals the index in the first live slot.
LEMMA LoopStep ==
    ASSUME OneKind, EInv, loop, i <= count[Other(inUse)]
    PROVE  EInv'
<1> DEFINE o == Other(inUse)
           e == slot[o][i]
<1>1. /\ Interpreting /\ interp = "loop" /\ i' = i + 1
      /\ signalled' = IF e = Free THEN signalled
                      ELSE [signalled EXCEPT ![e] = @ + 1]
      /\ UNCHANGED <<callerVars, inUse, count, slot, forced, interp>>
  BY DEF loop
<1>2. InTurn' /\ ~Writing /\ ~Writing'
  BY <1>1, CallersStay
<1>3. /\ o \in Buffer /\ o # inUse
      /\ i \in Nat /\ i >= 1 /\ i <= count[o]
      /\ count[o] \in Nat /\ count[o] <= SemaphoresToSignalSize
  BY TwoBuffers, Sizes DEF EInv, Types
<1>4. i \in Live(o) /\ i \in Slot
  BY <1>3, Sizes DEF Live, Slot
<1>5. e \in Caller /\ e # Free
  BY <1>3, <1>4, Sizes DEF EInv, RecordedIsKept
<1>6. Types'
  <2>1. signalled' \in [Caller -> Nat]
    <3> HIDE DEF e
    <3> QED BY <1>1, <1>5 DEF EInv, Types
  <2>2. i' \in Nat /\ i' >= 1
    BY <1>1, <1>3
  <2> QED BY <1>1, <2>1, <2>2 DEF EInv, Types, callerVars
<1>7. Drain'
  BY <1>1 DEF EInv, Drain
<1> HIDE DEF o
<1>8. ASSUME NEW b \in Buffer, NEW m \in Int
      PROVE  m \in Live(b)' <=> m \in Live(b) /\ ~(b = o /\ m = i)
  <2>1. count[b] \in Nat /\ count' = count /\ inUse' = inUse
    BY <1>1, Sizes DEF EInv, Types
  <2>2. CASE b = inUse
    BY <1>1, <1>2, <1>3, <2>1, <2>2 DEF Live
  <2>3. CASE b # inUse
    <3>1. b = o
      BY <2>3, TwoBuffers DEF EInv, Types, o
    <3>2. Live(b) = i..count[b] /\ Live(b)' = (i + 1)..count[b]
      BY <1>1, <2>1, <2>3 DEF Live
    <3> QED BY <1>3, <2>1, <3>1, <3>2
  <2> QED BY <2>2, <2>3
<1>9. ASSUME NEW d \in Caller, NEW x \in Buffer \X Slot
      PROVE  x \in Waiting(d)' <=> x \in Waiting(d) /\ x # <<o, i>>
  <2>1. x = <<x[1], x[2]>> /\ x[1] \in Buffer /\ x[2] \in Slot
        /\ x[2] \in Int
    BY DEF Slot
  <2>2. /\ x[2] \in Live(x[1])'
             <=> x[2] \in Live(x[1]) /\ ~(x[1] = o /\ x[2] = i)
        /\ slot' = slot
    BY <2>1, <1>1, <1>8
  <2>3. x = <<o, i>> <=> x[1] = o /\ x[2] = i
    BY <2>1
  <2>4. /\ x \in Waiting(d)
             <=> x[2] \in Live(x[1]) /\ slot[x[1]][x[2]] = d
        /\ x \in Waiting(d)'
             <=> x[2] \in Live(x[1])' /\ slot'[x[1]][x[2]] = d
    BY DEF Waiting
  <2> QED BY <2>2, <2>3, <2>4
<1>10. \A d \in Caller : <<o, i>> \in Waiting(d) <=> d = e
  BY <1>3, <1>4, <1>5 DEF Waiting
<1>11. \A d \in Caller : Waiting(d)' = Waiting(d) \ {<<o, i>>}
  <2>1. \A d : /\ Waiting(d) \subseteq Buffer \X Slot
               /\ Waiting(d)' \subseteq Buffer \X Slot
    BY DEF Waiting
  <2> QED BY <1>9, <2>1
<1>12. RecordedIsKept'
  <2>1. /\ \A d \in Caller :
             /\ signalled'[d] = IF d = e THEN signalled[d] + 1
                                         ELSE signalled[d]
             /\ signalled[d] \in Nat
             /\ called[d] = signalled[d] + Cardinality(Waiting(d))
        /\ called' = called
    BY <1>1, <1>5 DEF EInv, Types, RecordedIsKept, callerVars
  <2>2. ASSUME NEW d \in Caller
        PROVE  called'[d] = signalled'[d] + Cardinality(Waiting(d)')
    <3>1. Cardinality(Waiting(d)') =
            IF d = e THEN Cardinality(Waiting(d)) - 1
                     ELSE Cardinality(Waiting(d))
      BY <1>10, <1>11, WaitingFinite, FS_RemoveElement
    <3> QED BY <2>1, <3>1, WaitingFinite
  <2>3. ASSUME NEW b \in Buffer, NEW m \in Live(b)'
        PROVE  slot'[b][m] \in Caller
    <3>1. m \in Int
      <4>1. count[b] \in Nat /\ i \in Nat
        BY Sizes DEF EInv, Types
      <4> QED BY <4>1, <1>1, <1>2, <2>3 DEF Live
    <3>2. m \in Live(b)
      BY <1>8, <2>3, <3>1
    <3> QED BY <1>1, <3>2 DEF EInv, RecordedIsKept
  <2> QED BY <2>2, <2>3 DEF RecordedIsKept
<1> QED BY <1>2, <1>6, <1>7, <1>12 DEF EInv

\* The loop ends with nothing live in the buffer, and the reset only says so.
LEMMA DrainedStep ==
    ASSUME OneKind, EInv,
           reset \/ (loop /\ ~(i <= count[Other(inUse)]))
    PROVE  EInv'
<1> DEFINE o == Other(inUse)
<1>1. /\ Interpreting
      /\ UNCHANGED <<callerVars, inUse, slot, forced, i, signalled>>
      /\ \/ /\ interp = "reset" /\ interp' = "run"
            /\ count' = [count EXCEPT ![o] = 0]
         \/ /\ interp' = "reset" /\ count' = count /\ ~(i <= count[o])
  BY DEF reset, loop
<1>2. InTurn' /\ ~Writing /\ ~Writing'
  BY <1>1, CallersStay
<1>3. /\ inUse \in Buffer /\ o \in Buffer /\ o # inUse
      /\ \A b \in Buffer : b = inUse \/ b = o
      /\ i \in Nat /\ i >= 1 /\ count[o] \in Nat
  BY TwoBuffers, Sizes DEF EInv, Types
<1>4. i > count[o]
  BY <1>1, <1>3 DEF EInv, Drain
<1>5. /\ count' \in [Buffer -> 0..SemaphoresToSignalSize]
      /\ count'[inUse] = count[inUse] /\ count'[o] \in {0, count[o]}
      /\ interp' = "run" => count'[o] = 0
  BY <1>1, <1>3, Sizes DEF EInv, Types
<1>6. Types'
  BY <1>1, <1>5 DEF EInv, Types, callerVars
<1>7. Drain'
  BY <1>1, <1>4, <1>5 DEF Drain
<1>8. ASSUME NEW b \in Buffer PROVE Live(b)' = Live(b)
  <2>1. CASE b = inUse
    BY <1>1, <1>2, <1>5, <2>1 DEF Live
  <2>2. CASE b = o
    <3> HIDE DEF o
    <3>1. Live(b) = i..count[o] /\ Live(b)' = i..count'[o]
      BY <1>1, <1>3, <2>2 DEF Live
    <3> QED BY <3>1, <1>3, <1>4, <1>5
  <2> QED BY <1>3, <2>1, <2>2
<1>9. RecordedIsKept'
  BY <1>1, <1>8, KeptSame DEF EInv, callerVars
<1> QED BY <1>2, <1>6, <1>7, <1>9 DEF EInv

-----------------------------------------------------------------------------
(* The results.                                                            *)

LEMMA InitOK == Init => EInv
<1> SUFFICES ASSUME Init PROVE EInv
  OBVIOUS
<1>1. "A" \in Buffer /\ \A c \in Caller : at[c] = "out"
  BY DEF Init, Buffer
<1>2. ~Writing /\ InTurn
  BY <1>1 DEF Writing, InTurn, InCall
<1>3. Types
  <2>1. /\ count \in [Buffer -> 0..SemaphoresToSignalSize]
        /\ left \in [Caller -> 0..Calls]
        /\ slot \in [Buffer ->
             [1..(SemaphoresToSignalSize + Cardinality(Caller)) ->
                 Caller \cup {Free}]]
    BY Sizes DEF Init
  <2>2. /\ at \in [Caller ->
                     {"out", "choose", "load", "store", "write", "force"}]
        /\ chosen \in [Caller -> Buffer] /\ kept \in [Caller -> Nat]
        /\ called \in [Caller -> Nat] /\ signalled \in [Caller -> Nat]
    BY <1>1 DEF Init
  <2>3. inUse = "A" /\ i = 1 /\ forced = FALSE /\ interp = "run"
    BY Zenon DEF Init
  <2>4. forced \in BOOLEAN
    BY <2>3, Zenon
  <2>5. i \in Nat /\ i >= 1
    BY <2>3
  <2>6. /\ inUse \in Buffer
        /\ interp \in {"run", "test", "flip", "loop", "reset"}
    BY <1>1, <2>3
  <2> QED BY <2>1, <2>2, <2>4, <2>5, <2>6, Zenon DEF Types
<1>4. \A b \in Buffer : count[b] = 0 /\ i = 1
  BY DEF Init
<1>5. Drain
  BY <1>1, <1>4, TwoBuffers DEF Init, Drain
<1>6. \A b \in Buffer : Live(b) = {}
  BY <1>2, <1>4 DEF Live
<1>7. \A c \in Caller : Waiting(c) = {} /\ called[c] = 0 /\ signalled[c] = 0
  BY <1>6 DEF Waiting, Init
<1>8. RecordedIsKept
  BY <1>6, <1>7, FS_EmptySet DEF RecordedIsKept
<1> QED BY <1>2, <1>3, <1>5, <1>8 DEF EInv

LEMMA NextStep ==
    ASSUME OneKind, EInv, [Next]_vars
    PROVE  EInv'
<1>1. ASSUME NEW c \in Caller, signalSemaphoreWithIndex(c)
      PROVE  EInv'
  BY <1>1, CallStep, ChooseStep, LoadStep, StoreStep, WriteStep, ForceStep
     DEF signalSemaphoreWithIndex, finish
<1>2. CASE signalExternalSemaphores
  BY <1>2, TestStep, FlipStep, LoopStep, DrainedStep
     DEF signalExternalSemaphores
<1>3. CASE UNCHANGED vars
  <2>1. \A b \in Buffer : Live(b)' = Live(b)
    BY <1>3 DEF vars, Live, Writing
  <2>2. RecordedIsKept'
    BY <1>3, <2>1, KeptSame DEF vars, EInv
  <2>3. Types' /\ Drain'
    BY <1>3 DEF vars, EInv, Types, Drain
  <2>4. InTurn'
    BY <1>3 DEF vars, EInv, InTurn, InCall
  <2> QED BY <2>2, <2>3, <2>4 DEF EInv
<1> QED BY <1>1, <1>2, <1>3 DEF Next

LEMMA Invariance ==
    ASSUME OneKind PROVE Spec => []EInv
<1>1. Init => EInv
  BY InitOK
<1>2. EInv /\ [Next]_vars => EInv'
  BY NextStep
<1> QED BY <1>1, <1>2, PTL DEF Spec

\* signalSemaphoreWithIndex never writes beyond semaphoresToSignal, though it
\* increments the count before it writes, as long as its callers are of one
\* kind.
THEOREM BoundedWrites ==
    ASSUME OneKind PROVE Spec => []WritesInBounds
<1>1. EInv => WritesInBounds
  <2> SUFFICES ASSUME EInv, NEW c \in Caller, at[c] = "write"
               PROVE  {kept[c], count[chosen[c]]} \subseteq
                         1..SemaphoresToSignalSize
    BY DEF WritesInBounds
  <2>1. /\ chosen[c] = inUse /\ kept[c] = count[inUse] /\ kept[c] >= 1
        /\ count[inUse] \in 0..SemaphoresToSignalSize
    BY DEF EInv, Types, InTurn
  <2> QED BY <2>1, Sizes
<1> QED BY <1>1, Invariance, PTL

\* Every index a caller records is signalled exactly once or waits in one slot
\* that the drain of signalExternalSemaphores has still to come to, whatever
\* statement a call interrupts: what RecordedIsSignalled needs to be true but
\* for the interpreter to go on.
THEOREM NothingLost ==
    ASSUME OneKind PROVE Spec => []RecordedIsKept
<1>1. EInv => RecordedIsKept
  BY DEF EInv
<1> QED BY <1>1, Invariance, PTL

\* Every variable keeps its type, the counts within the buffers.
THEOREM DoubleBufferTypes ==
    ASSUME OneKind PROVE Spec => []TypeOK
<1>1. EInv => TypeOK
  <2>1. 0..SemaphoresToSignalSize \subseteq
          0..(SemaphoresToSignalSize + Cardinality(Caller))
    BY Sizes
  <2> QED BY <2>1 DEF EInv, Types, TypeOK
<1> QED BY <1>1, Invariance, PTL
=============================================================================
