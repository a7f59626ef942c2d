-------------------------------- MODULE Heap --------------------------------
(***************************************************************************)
(* The memory as the running image sees it: objects with fields, nothing   *)
(* said of generations or of a root table.  Objects may vanish in any step *)
(* that allocates or collects, but only those that no chain of strong      *)
(* references leads to, and every weak reference to one of them is nil     *)
(* from then on.  The one reference to a living object that a collection   *)
(* may take away is a weak one of the object to itself.  ObjectMemory is   *)
(* shown to implement this module.                                         *)
(***************************************************************************)
EXTENDS Reachability

CONSTANTS Object, Slot, SlotsOf, WeakSlots, Context, SenderSlot, HomeSlot,
          nilObj, specialObjectsOop, Image, FirstContext

VARIABLES live, fields, activeContext, theHomeContext

heapVars == <<live, fields, activeContext, theHomeContext>>

Block == {c \in Context : HomeSlot \in SlotsOf[c]}
StackSlots(o) == SlotsOf[o] \ {SenderSlot, HomeSlot}
NoFields == [s \in Slot |-> nilObj]
Registers == {specialObjectsOop, activeContext}

Accessible == Reached(fields, Registers, Slot, live)
Held == Reached(fields, Registers, Slot \ WeakSlots, live)

OnStack == {activeContext}
           \cup {fields[activeContext][s] : s \in Slot \ WeakSlots}

\* A step may free what is not held, and leaves no weak field naming it.
Gone == live \ live'
CollectsGarbage == Gone \cap Held = {}

\* A collection may also take the objects in emptied, which stay, for gone
\* where their own weak fields name them.
Without(emptied) ==
    LET Lost(o, s) == \/ fields[o][s] \in Gone
                      \/ o \in emptied /\ s \in WeakSlots /\ fields[o][s] = o
    IN  [o \in Object |->
            IF o \in Gone THEN NoFields
            ELSE [s \in Slot |-> IF Lost(o, s) THEN nilObj ELSE fields[o][s]]]

\* The home field of a block names its home; a method's context is its own.
Enter(c, newFields) ==
    /\ activeContext' = c
    /\ theHomeContext' = IF c \in Block THEN newFields[c][HomeSlot] ELSE c
    /\ fields' = newFields

Store ==
    /\ UNCHANGED <<live, activeContext, theHomeContext>>
    /\ \E o \in Accessible, v \in Accessible \cup {nilObj} :
       \E s \in StackSlots(o) : fields' = [fields EXCEPT ![o][s] = v]

Collect ==
    /\ live' \subseteq live
    /\ CollectsGarbage
    /\ \E emptied \in SUBSET live : fields' = Without(emptied)
    /\ UNCHANGED <<activeContext, theHomeContext>>

\* Each kind of object is made with the references its creation gives it.
New ==
    /\ UNCHANGED <<activeContext, theHomeContext>>
    /\ \E o \in Object \ (live \cup Context) :
         /\ live' \ live = {o}
         /\ CollectsGarbage
         /\ \E s \in StackSlots(activeContext), emptied \in SUBSET live :
               fields' = [Without(emptied) EXCEPT ![activeContext][s] = o]

NewBlock ==
    /\ UNCHANGED <<activeContext, theHomeContext>>
    /\ \E b \in Block \ live :
         /\ live' \ live = {b}
         /\ CollectsGarbage
         /\ \E c \in OnStack \cap Context, s \in StackSlots(activeContext),
               emptied \in SUBSET live :
               fields' = [Without(emptied) EXCEPT
                            ![b][HomeSlot] = IF c \in Block
                                             THEN fields[c][HomeSlot] ELSE c,
                            ![activeContext][s] = b]

Send ==
    \E c \in (Context \ Block) \ live :
        /\ live' \ live = {c}
        /\ CollectsGarbage
        /\ \E from \in StackSlots(activeContext), to \in StackSlots(c),
              emptied \in SUBSET live :
              Enter(c, [Without(emptied) EXCEPT
                          ![c][SenderSlot] = activeContext,
                          ![c][to] = Without(emptied)[activeContext][from]])

Value ==
    /\ UNCHANGED live
    /\ \E b \in Accessible \cap Block :
         /\ fields[b][SenderSlot] = nilObj
         /\ Enter(b, [fields EXCEPT ![b][SenderSlot] = activeContext])

\* The value goes to the target's stack.  A context that is left may vanish,
\* if nothing the image can name afterwards refers to it.
Return ==
    \E c \in {activeContext, theHomeContext}, v \in Accessible \cup {nilObj} :
        LET target == fields[c][SenderSlot]
            left == Reached(fields, {activeContext} \ {target}, {SenderSlot},
                            live \ {target})
            Left(s) == [o \in Object |->
                          IF o \in left
                          THEN [fields[o] EXCEPT ![SenderSlot] = nilObj]
                          ELSE IF o = target THEN [fields[o] EXCEPT ![s] = v]
                          ELSE fields[o]]
        IN  /\ target # nilObj
            /\ \A o \in left : fields[o][SenderSlot] # nilObj
            /\ live' \subseteq live /\ Gone \subseteq left
            /\ \E s \in StackSlots(target) :
                  /\ Gone \cap Reached(Left(s), {specialObjectsOop, target},
                                       Slot, live) = {}
                  /\ Enter(target, [o \in Object |->
                               IF o \in Gone THEN NoFields ELSE Left(s)[o]])

\* Every reference to a becomes one to b, and every one to b becomes one to a.
Become ==
    /\ UNCHANGED <<live, activeContext, theHomeContext>>
    /\ \E a, b \in Accessible \ (Context \cup {specialObjectsOop}) :
         LET Swap(v) == CASE v = a -> b [] v = b -> a [] OTHER -> v
         IN  /\ a # b
             /\ fields' = [o \in Object |-> [s \in Slot |-> Swap(fields[o][s])]]

Init ==
    /\ live = Image
    /\ fields = [o \in Object |-> NoFields]
    /\ activeContext = FirstContext
    /\ theHomeContext = FirstContext

Next == \/ Store \/ Collect \/ New \/ NewBlock \/ Send \/ Value \/ Return
        \/ Become

Spec == Init /\ [][Next]_heapVars
=============================================================================
