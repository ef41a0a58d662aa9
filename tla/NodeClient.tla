----------------------------- MODULE NodeClient -----------------------------
(***************************************************************************)
(* nodeClient (src/eibc/node_client.go): asks the full nodes of a rollapp  *)
(* whether they have validated a block, and remembers the last answer per  *)
(* rollapp.  Rollapps share nothing, so one is modelled.  Only the order   *)
(* validator calls BlockValidated, one call at a time; the nodes of one    *)
(* call are asked in parallel while they go on validating.                 *)
(***************************************************************************)
EXTENDS Naturals, FiniteSets

CONSTANTS
    Node,              \* the rollapp's FullNodes
    MinConfirmations,  \* nodes that have to agree
    MaxHeight          \* bound on the heights of blocks and of questions

None == 0
P2P == 1
Settlement == 2

Level == {P2P, Settlement}

Height == 0..MaxHeight

\* newNodeClient refuses no confirmations and more than there are nodes.
ASSUME NodeClientAssumption ==
    /\ IsFiniteSet(Node)
    /\ MinConfirmations \in 1..Cardinality(Node)
    /\ MaxHeight \in Nat

VARIABLES
    expected,         \* the levels asked for, whatever the providers' grants say
    validated,        \* per node and level, the height up to which it has validated
    lastValidHeight,  \* the cached height and its confirmations
    question,         \* the height and level being asked for, or Idle
    replies,          \* what each node has replied to the question
    answer,           \* the last answer of BlockValidated, or Idle
    confirmed         \* per level, the greatest height ever answered yes to

nodeVars == <<expected, validated, lastValidHeight, question, replies, answer, confirmed>>

Idle == [height |-> 0, level |-> None]

Question == [height : Height, level : Level]

NodeTypeOK ==
    /\ expected \subseteq Level
    /\ validated \in [Node -> [Level -> Height]]
    /\ lastValidHeight \in [height : Height, confirmations : 0..Cardinality(Node)]
    /\ question \in Question \cup {Idle}
    /\ replies \in [Node -> {"none", "yes", "no", "error"}]
    /\ answer \in [height : Height, level : Level, result : {"yes", "no", "error"}] \cup {Idle}
    /\ confirmed \in [Level -> Height]

\* The zero value of the cache has height 0 and no confirmations.
NodeInit ==
    /\ expected \in (SUBSET Level) \ {{}}
    /\ validated = [n \in Node |-> [l \in Level |-> 0]]
    /\ lastValidHeight = [height |-> 0, confirmations |-> 0]
    /\ question = Idle
    /\ replies = [n \in Node |-> "none"]
    /\ answer = Idle
    /\ confirmed = [l \in Level |-> 0]

----------------------------------------------------------------------------
\* The result a node gives for a height: the highest level it has reached.
ResultOf(n, h) ==
    IF h <= validated[n][Settlement] THEN Settlement
    ELSE IF h <= validated[n][P2P] THEN P2P ELSE None

\* Bug variant: the confirmations of the cached height are not looked at.
Cached_AnyCount(h) == h <= lastValidHeight.height

Cached(h) ==
    /\ h <= lastValidHeight.height
    /\ lastValidHeight.confirmations >= MinConfirmations

Answer(h, l, result) ==
    /\ answer' = [height |-> h, level |-> l, result |-> result]
    /\ confirmed' = IF result = "yes" /\ h > confirmed[l]
                    THEN [confirmed EXCEPT ![l] = h] ELSE confirmed

\* The height was validated before, at whatever level was asked for then.
AnswerFromCache(h, l) ==
    /\ question = Idle
    /\ Cached(h)
    /\ Answer(h, l, "yes")
    /\ UNCHANGED <<expected, validated, lastValidHeight, question, replies>>

AskNodes(h, l) ==
    /\ question = Idle
    /\ ~Cached(h)
    /\ question' = [height |-> h, level |-> l]
    /\ replies' = [n \in Node |-> "none"]
    /\ answer' = Idle
    /\ UNCHANGED <<expected, validated, lastValidHeight, confirmed>>

nodeBlockValidated(n) ==
    /\ question # Idle /\ replies[n] = "none"
    /\ replies' = [replies EXCEPT ![n] =
          IF ResultOf(n, question.height) >= question.level THEN "yes" ELSE "no"]
    /\ UNCHANGED <<expected, validated, lastValidHeight, question, answer, confirmed>>

\* Bug variant: a node that cannot be asked counts as one that has not validated.
NodeFails_AsNo(n) ==
    /\ question # Idle /\ replies[n] = "none"
    /\ replies' = [replies EXCEPT ![n] = "no"]
    /\ UNCHANGED <<expected, validated, lastValidHeight, question, answer, confirmed>>

\* The node cannot be reached, or it answers for another chain or with a
\* result that is no number.
NodeFails(n) ==
    /\ question # Idle /\ replies[n] = "none"
    /\ replies' = [replies EXCEPT ![n] = "error"]
    /\ UNCHANGED <<expected, validated, lastValidHeight, question, answer, confirmed>>

Confirming == {n \in Node : replies[n] = "yes"}

AllReplied == question # Idle /\ \A n \in Node : replies[n] # "none"

\* One node that fails makes the whole answer an error, and nothing is cached.
ConcludeError ==
    /\ AllReplied
    /\ \E n \in Node : replies[n] = "error"
    /\ Answer(question.height, question.level, "error")
    /\ question' = Idle
    /\ replies' = [n \in Node |-> "none"]
    /\ UNCHANGED <<expected, validated, lastValidHeight>>

\* The cache is overwritten, also by a lower height or by too few nodes.
Conclude ==
    /\ AllReplied
    /\ \A n \in Node : replies[n] # "error"
    /\ lastValidHeight' = [height |-> question.height,
                           confirmations |-> Cardinality(Confirming)]
    /\ Answer(question.height, question.level,
              IF Cardinality(Confirming) >= MinConfirmations THEN "yes" ELSE "no")
    /\ question' = Idle
    /\ replies' = [n \in Node |-> "none"]
    /\ UNCHANGED <<expected, validated>>

\* External: a node validates its next block, and never takes one back.
Validate(n, l) ==
    /\ validated[n][l] < MaxHeight
    /\ validated' = [validated EXCEPT ![n][l] = @ + 1]
    /\ UNCHANGED <<expected, lastValidHeight, question, replies, answer, confirmed>>

NodeNext ==
    \/ \E h \in Height, l \in expected : AnswerFromCache(h, l) \/ AskNodes(h, l)
    \/ \E n \in Node : nodeBlockValidated(n) \/ NodeFails(n)
    \/ ConcludeError \/ Conclude
    \/ \E n \in Node, l \in Level : Validate(n, l)

NodeSpec == NodeInit /\ [][NodeNext]_nodeVars

----------------------------------------------------------------------------
\* The nodes that have validated height h at level l or above.
Backing(h, l) == {n \in Node : ResultOf(n, h) >= l}

Yes == answer # Idle /\ answer.result = "yes"

(***************************************************************************)
(* A yes, from the cache or not, is backed by enough nodes at the lowest   *)
(* level the client asks for, although nodes answer at different times,    *)
(* fail, and the cache keeps the last answer only                          *)
(* (node_client.go:90-92 and 122-131).                                     *)
(***************************************************************************)
AnswersBacked ==
    Yes => \E l \in expected : /\ \A k \in expected : l <= k
                               /\ Cardinality(Backing(answer.height, l)) >= MinConfirmations

(***************************************************************************)
(* While only one level is asked for, a yes is never taken back: a height  *)
(* up to a confirmed one may be asked again, since the cache forgets, but  *)
(* its answer is yes or an error (node_client.go:126-129).                 *)
(***************************************************************************)
NotTakenBack ==
    Cardinality(expected) = 1 /\ answer # Idle /\ answer.result = "no"
        => answer.height > confirmed[answer.level]

(***************************************************************************)
(* A provider that asks for settlement only gets orders whose block enough *)
(* nodes report as settled (types/authz.pb.go:131-132, "the flag to only   *)
(* fulfill demand orders that have been settlement validated").            *)
(***************************************************************************)
SettledWhenAsked ==
    Yes /\ answer.level = Settlement
        => Cardinality(Backing(answer.height, Settlement)) >= MinConfirmations
=============================================================================
