---------------------------- MODULE MCPersistKV ----------------------------
EXTENDS PersistKV

CONSTANTS MaxPrompt,  \* longest prompt a client sends
          TooLong,    \* lengths of further prompts, for which one each is enough
          MaxInner    \* longest prompt the recall stage writes

(* A prompt of length n whose tokens are all the same. *)
Plain(n) == [i \in 1..n |-> CHOOSE x \in Tok : TRUE]

(* Every token sequence up to MaxPrompt, and the overlong ones. *)
MCPrompts == UNION {[1..n -> Tok] : n \in 1..MaxPrompt} \cup {Plain(n) : n \in TooLong}

(* Internal prompts differ in length only. *)
MCInner == {Plain(n) : n \in {2, MaxInner}}
=============================================================================
