--------------------------- MODULE MCObjectMemory ---------------------------
(* Instances of ObjectMemory for TLC. *)
EXTENDS ObjectMemory

CONSTANTS S, M, N, B, W, A, C, theSender, theHome, theStack, var, weak,
          MoreSlots

\* Which object has which fields: S is the special objects array, M the
\* context the image resumes, N and C (where Context has it) other methods',
\* B a block's, W a weak array, A and C plain objects.  MoreSlots are further
\* variables of M.
MCSlotsOf ==
    [o \in Object |->
        CASE o = S -> {var}
          [] o = M -> {theSender, theStack} \cup MoreSlots
          [] o \in {N, C} \cap Context -> {theSender, theStack}
          [] o = B -> {theSender, theHome, theStack}
          [] o = W -> {weak}
          [] OTHER -> {var}]
=============================================================================
