----------------------------- MODULE Admission -----------------------------
(***************************************************************************)
(* The door of the memory store (harness/skills/lifecycle.py): what a      *)
(* sentence must be to become a fact, and how its packaging comes off.  A  *)
(* sentence is a claim, known by what the patterns find in it, and the     *)
(* layers in front of it; a behaviour packs one claim deeper and deeper.   *)
(* Two ways lead in: capture after a turn, and remember() itself.          *)
(***************************************************************************)
EXTENDS Naturals, Sequences

CONSTANTS MaxLayers   \* bound: layers around a claim

VARIABLES claim,   \* what the patterns find in the claim
          layers   \* the packaging in front of it, outermost first

advars == <<claim, layers>>

(* "hat": a discourse marker; "verb": remember that; "please": the same, asked  *)
(* politely; "bullet": a list mark; "prefix": "The user said: ".                *)
Layer == {"hat", "verb", "please", "bullet", "prefix"}
Claim == [frame    : {"none", "receipt", "fence", "instruction", "meta"},
          subject  : {"he", "you", "it"},
          mood     : {"plain", "question", "irrealis", "reaction", "quotation"},
          stative  : BOOLEAN, anchor : BOOLEAN,
          secret   : BOOLEAN, person : BOOLEAN, asserts : {"his", "her name", "her gender"}]

AdmissionInit == claim \in Claim /\ layers = <<>>
Wrap(l) == Len(layers) < MaxLayers /\ layers' = <<l>> \o layers /\ UNCHANGED claim
AdmissionNext == \E l \in Layer : Wrap(l)
AdmissionSpec == AdmissionInit /\ [][AdmissionNext]_advars

-----------------------------------------------------------------------------
\* The layer a pattern anchored at the start sees.
Outermost(w) == IF w = <<>> THEN "claim" ELSE w[1]
Drop(w, S) ==
    LET keep == {i \in 1..Len(w) : w[i] \notin S}
    IN  IF keep = {} THEN <<>>
        ELSE SubSeq(w, CHOOSE i \in keep : \A j \in keep : i <= j, Len(w))

\* _DISCOURSE_LEAD.sub: every marker at the head.
DropHats(w) == Drop(w, {"hat"})

\* Faulty: one layer comes off and what is below stays.
NormalizeOnce(w) == IF Outermost(w) \in {"bullet", "verb", "please", "prefix"} THEN Tail(w) ELSE w

\* normalize_fact: bullet, store verb and prefix, until nothing changes.
NormalizeFact(w) == Drop(w, {"bullet", "verb", "please", "prefix"})

\* The frame is looked for at the head of the text as it came, a fence and a
\* note about the system anywhere.
FrameRefuses(w) ==
    \/ claim.frame \in {"fence", "meta"}
    \/ claim.frame \in {"receipt", "instruction"} /\ w = <<>>
    \/ Outermost(w) = "please"

\* is_memorable, on a claim in these layers. "The user" of the prefix is an anchor.
IsMemorable(w) ==
    LET core == DropHats(w) IN
    /\ ~FrameRefuses(w)
    /\ claim.mood \in {"plain", "reaction"}
    /\ claim.mood = "reaction" => core # <<>>      \* seven words or more
    /\ core = <<>> => claim.subject = "he"
    /\ claim.stative
    /\ claim.anchor \/ \E i \in 1..Len(core) : core[i] = "prefix"

\* classify: a credential first, whoever else the sentence mentions.
Classify == IF claim.secret THEN "private-secret" ELSE IF claim.person THEN "relationship" ELSE "fact"

\* admit_to_user_store: nothing that is true of her is filed as true of him.
AdmitToUserStore == claim.asserts = "his"

Refused == [stored |-> FALSE]
Admit(w, author) ==
    LET n == NormalizeFact(w)
    IN  IF IsMemorable(n) /\ (author = "user" => AdmitToUserStore)
        THEN [stored |-> TRUE, text |-> n, class |-> Classify] ELSE Refused
\* extract_facts, then remember() for him: the sentence is judged twice.
Capture(w) == IF IsMemorable(w) THEN Admit(DropHats(w), "user") ELSE Refused

-----------------------------------------------------------------------------
\* What capture stores begins with the claim and not with its packaging, however
\* the layers are nested, so that attribute_key reads the slot of the claim.
Unwrapped == Capture(layers).stored =>
    Outermost(Capture(layers).text) \notin {"bullet", "verb", "please", "prefix"}

\* "the hat comes off, the fact stays": a discourse marker in front of a sentence
\* that is no instruction or receipt loses no fact he told her, at either door.
HatOff == claim.frame = "none" =>
    /\ Capture(layers).stored => Capture(<<"hat">> \o layers).stored
    /\ \A who \in {"user", "self"} :
          Admit(layers, who).stored => Admit(<<"hat">> \o layers, who).stored

\* A credential that gets into the store by any door, in any packaging and whoever
\* the sentence is about, has the class the decline looks for.
SecretKept == \A fact \in {Capture(layers), Admit(layers, "user"), Admit(layers, "self")} :
    fact.stored /\ claim.secret => fact.class = "private-secret"

\* Her own name or gender is in his store by no door, however it is wrapped: there it
\* would retire the rows that say who he is.
HersIsHers == \A fact \in {Capture(layers), Admit(layers, "user")} :
    fact.stored => claim.asserts \notin {"her name", "her gender"}

\* What is filed is what he meant, under the name it has. Her name or gender is in his
\* store by no door, what is stored begins with the claim however it was wrapped, a
\* discourse marker loses no fact, and a credential has the class the decline looks for
\* (normalize_fact, admit_to_user_store, is_memorable, classify).
FiledAsMeant == HersIsHers /\ Unwrapped /\ HatOff /\ SecretKept
=============================================================================
