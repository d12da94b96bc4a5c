----------------------------- MODULE OkfPolicy -----------------------------
(***************************************************************************)
(* What goes into the content-addressed store (tools/okf_mem.py) and what  *)
(* is said of it: the frontmatter that add writes against what verify and  *)
(* tools/okf_validate.py accept, and the verdict on a candidate against    *)
(* the texts that are there.  A text is its set of content tokens, and its *)
(* address is the text.                                                    *)
(***************************************************************************)
EXTENDS Naturals, FiniteSets

CONSTANTS Tok,         \* content tokens
          TopK,        \* entries whose union is the known part of a candidate
          MaxTexts     \* bound: entries

VARIABLES texts,       \* the texts in full/
          options,     \* the options of the last add
          front        \* the frontmatter it wrote

okvars == <<texts, options, front>>

\* What add takes; "" is not given. A link goes with a superseded or contradicted entry.
Options == [class : {"", "fact", "counterfact", "private-secret"}, delivery : {"", "recite"},
            decline : {"", "low-margin"}, verified : {"", "verified", "contradicted"},
            lifecycle : {"", "superseded"}, link : BOOLEAN, status : {"ACTIVE", "WIP"}]

Given(x, default) == IF x = "" THEN default ELSE x

\* memclass.delivery_map.
DefaultDelivery(c) == CASE c = "fact" -> "system" [] c = "counterfact" -> "systemecho"
                        [] c = "private-secret" -> "attr-gate-strict" [] OTHER -> ""

\* The policy block and the axes.
Frontmatter(o) ==
    [class     |-> o.class,
     delivery  |-> IF o.class = "" THEN "" ELSE Given(o.delivery, DefaultDelivery(o.class)),
     decline   |-> IF o.class = "" THEN {} ELSE IF o.decline # "" THEN {o.decline}
                   ELSE IF o.class = "private-secret" THEN {"zero-inference", "attribute-absent"} ELSE {},
     verified  |-> Given(o.verified, "unverified"),
     lifecycle |-> Given(o.lifecycle, "active"),
     link      |-> o.link, status |-> o.status]

Plain == [class |-> "", delivery |-> "", decline |-> "", verified |-> "", lifecycle |-> "",
          link |-> FALSE, status |-> "ACTIVE"]

OkfPolicyInit == texts = {} /\ options = Plain /\ front = Frontmatter(Plain)

\* cmd_add: "verified" is refused at capture; an entry of the same address is replaced.
Add(text, o) ==
    /\ o.verified # "verified"
    /\ texts' = texts \cup {text} /\ Cardinality(texts') <= MaxTexts
    /\ options' = o /\ front' = Frontmatter(o)

\* The frontmatter does not depend on the text, nor the verdict on the frontmatter: bound, the
\* options are varied on one text of an empty store.
OkfPolicyNext ==
    \/ \E text \in SUBSET Tok : Add(text, Plain)
    \/ texts = {} /\ \E o \in Options : Add(Tok, o)
OkfPolicySpec == OkfPolicyInit /\ [][OkfPolicyNext]_okvars

-----------------------------------------------------------------------------
(* cmd_verify and okf_validate.validate_file *)

Deliveries == {"attr-gate-strict", "systemecho", "two-stage", "recite", "system", "pass"}
Declines == {"attribute-absent", "family-ambiguous", "low-margin", "zero-inference"}
SPStatus == {"GREEN", "GREEN-LIVE", "RED", "DESIGN", "HONEST-NEGATIVE", "DRAFT", "ACTIVE", "SUPERSEDED"}

SafeSecret(f) == f.class = "private-secret" => f.delivery = "attr-gate-strict" /\ "zero-inference" \in f.decline

VerifyGreen(f) ==
    /\ f.lifecycle = "superseded" \/ f.verified = "contradicted" => f.link
    /\ f.class # "" => f.delivery \in Deliveries /\ f.decline \subseteq Declines
    /\ SafeSecret(f)

\* add's own type, tags and timestamp are well formed; the status is the caller's word.
ValidateGreen(f) == f.status \in SPStatus

-----------------------------------------------------------------------------
(* classify_body *)

Covered(cand, t) == Cardinality(cand \cap t)
\* The Jaccard index of t is the greater, the fractions compared.
Closer(cand, t, u) == Covered(cand, t) * Cardinality(cand \cup u) > Covered(cand, u) * Cardinality(cand \cup t)

\* t is sorted before u; the addresses, which are hashes, order the rest.
Better(cand, t, u) == \/ Covered(cand, t) > Covered(cand, u)
                      \/ Covered(cand, t) = Covered(cand, u) /\ Closer(cand, t, u)

\* What the first k of the sorted list may be.
FirstOf(S, cand, k) ==
    {K \in SUBSET S : /\ Cardinality(K) = IF Cardinality(S) < k THEN Cardinality(S) ELSE k
                      /\ \A t \in K, u \in S \ K : ~Better(cand, u, t)}

\* hi_cov is 0.55 and disc_resid 0.5.
Dominates(cand, t) == 20 * Covered(cand, t) >= 11 * Cardinality(cand)
MostlyNew(cand, K) == 2 * Cardinality(cand \ UNION K) >= Cardinality(cand)

\* The verdicts that the order of equal scores leaves open; novel: the declared type is not one of
\* the profile's.
ClassifyBody(S, cand, novel) ==
    IF cand = {} THEN {"UNKNOWN"}
    ELSE IF cand \in S \/ \E K \in FirstOf(S, cand, 1) : \E t \in K : Dominates(cand, t) THEN {"RETRIEVAL"}
    ELSE {IF novel \/ MostlyNew(cand, K) THEN "DISCOVERY" ELSE "SEARCH" : K \in FirstOf(S, cand, TopK)}

-----------------------------------------------------------------------------
\* An entry that add makes of its class's defaults passes verify and the validator,
\* with an axis set and its link too; a secret fails verify exactly when the caller
\* overrode the delivery or the decline of its class.
AddConforms ==
    /\ options.status = "ACTIVE" => ValidateGreen(front)
    /\ options.link \/ (options.verified = "" /\ options.lifecycle = "") =>
          (VerifyGreen(front) <=> ~(/\ options.class = "private-secret"
                                    /\ options.delivery # "" \/ options.decline # ""))

\* Once a text would be a rebuild of what the store holds it stays one, whatever is
\* added: a later entry that is more alike must not take the covering one's place.
RebuildStaysStep ==
    \A cand \in SUBSET Tok : \A novel \in BOOLEAN :
        ClassifyBody(texts, cand, novel) = {"RETRIEVAL"} => ClassifyBody(texts', cand, novel) = {"RETRIEVAL"}
RebuildStays == [][RebuildStaysStep]_okvars
=============================================================================
