-------------------------- MODULE NodeClient_proofs --------------------------
(***************************************************************************)
(* AnswersBacked and NotTakenBack are invariants of NodeClient, for any    *)
(* number of nodes, of confirmations and of heights.                       *)
(*                                                                         *)
(* Neither is inductive.  A yes from the cache needs that the cached count *)
(* is still backed, one from the nodes that the replies collected so far   *)
(* are.  That a yes is not taken back needs that the nodes behind it, who  *)
(* may be others than those that were counted, do not deny a height below. *)
(* Everything rests on nodes never taking a validation back.               *)
(***************************************************************************)
EXTENDS NodeClient, FiniteSetTheorems, TLAPS

Lowest(l) == l \in expected /\ \A k \in expected : l <= k

\* Enough nodes have validated height h at level l.
Backed(h, l) == Cardinality(Backing(h, l)) >= MinConfirmations

\* The confirmations of the cached height are backed, at the lowest level.
CacheBacked ==
    \A l \in Level : Lowest(l) =>
        Cardinality(Backing(lastValidHeight.height, l)) >= lastValidHeight.confirmations

\* The level asked for is an expected one, and who has said yes means it.
RepliesBacked ==
    question # Idle =>
        /\ question \in Question /\ question.level \in expected
        /\ \A n \in Node : replies[n] = "yes" => n \in Backing(question.height, question.level)

YesBacked ==
    Yes => \A l \in Level : Lowest(l) => Backed(answer.height, l)

BackedInv == NodeTypeOK /\ expected # {} /\ CacheBacked /\ RepliesBacked /\ YesBacked

\* The nodes that may still confirm the question, or have.
Willing(l) == {n \in Backing(question.height, l) : replies[n] # "no"}

\* With one level: what has been confirmed is backed, and a question about
\* a height not above it will be confirmed again.
KeptInv ==
    \A l \in Level : expected = {l} =>
        /\ Backed(confirmed[l], l)
        /\ question # Idle /\ question.height <= confirmed[l] =>
              Cardinality(Willing(l)) >= MinConfirmations
        /\ answer # Idle /\ answer.result = "no" =>
              answer.level = l /\ answer.height > confirmed[l]

----------------------------------------------------------------------------
\* Sets of nodes are finite, and have as many members as their subsets or more.
LEMMA NodeSets ==
    ASSUME NEW S \in SUBSET Node, NEW T \in SUBSET S
    PROVE  /\ IsFiniteSet(S) /\ Cardinality(S) \in Nat
           /\ Cardinality(S) \in 0..Cardinality(Node)
           /\ Cardinality(T) \in Nat /\ Cardinality(T) <= Cardinality(S)
<1>1. IsFiniteSet(S) /\ Cardinality(S) <= Cardinality(Node)
      BY NodeClientAssumption, FS_Subset
<1>2. IsFiniteSet(T) /\ Cardinality(T) <= Cardinality(S)
      BY <1>1, FS_Subset
<1>3. Cardinality(S) \in Nat /\ Cardinality(T) \in Nat /\ Cardinality(Node) \in Nat
      BY <1>1, <1>2, NodeClientAssumption, FS_CardinalityType
<1>   QED BY <1>1, <1>2, <1>3

\* Who has validated a height has validated every lower one, at every lower level.
LEMMA BackingAntitone ==
    ASSUME NodeTypeOK, NEW h \in Height, NEW i \in Height, i <= h,
           NEW l \in Level, NEW k \in Level, k <= l
    PROVE  Backing(h, l) \subseteq Backing(i, k)
BY NodeClientAssumption
   DEF Backing, ResultOf, NodeTypeOK, Height, Level, None, P2P, Settlement

\* Validations are never taken back.
LEMMA BackingGrows ==
    ASSUME NodeTypeOK, NEW n \in Node, NEW k \in Level, Validate(n, k),
           NEW h \in Height, NEW l \in Level
    PROVE  Backing(h, l) \subseteq Backing(h, l)'
<1> SUFFICES ASSUME NEW m \in Backing(h, l) PROVE m \in Backing(h, l)'
    OBVIOUS
<1>1. m \in Node /\ \A j \in Level : validated'[m][j] >= validated[m][j]
      BY NodeClientAssumption DEF Validate, NodeTypeOK, Height, Backing
<1>   QED BY <1>1, NodeClientAssumption
          DEF Backing, ResultOf, NodeTypeOK, Height, Level, None, P2P, Settlement, Validate

\* Enough nodes stand behind h if they do behind a height not below it.
LEMMA BackedBelow ==
    ASSUME NodeTypeOK, NEW h \in Height, NEW i \in Height, i <= h,
           NEW l \in Level, NEW k \in Level, k <= l
    PROVE  Cardinality(Backing(h, l)) <= Cardinality(Backing(i, k))
<1>1. Backing(h, l) \subseteq Backing(i, k) /\ Backing(i, k) \subseteq Node
      BY BackingAntitone DEF Backing
<1>   QED BY <1>1, NodeSets

\* Height 0, that of no block, is validated by every node.
LEMMA ZeroBacked ==
    ASSUME NodeTypeOK, NEW l \in Level
    PROVE  Backed(0, l)
<1>1. Backing(0, l) = Node
      BY NodeClientAssumption
         DEF Backing, ResultOf, NodeTypeOK, Height, Level, None, P2P, Settlement
<1>   QED BY <1>1, NodeClientAssumption, FS_CardinalityType DEF Backed

----------------------------------------------------------------------------
(* The steps.                                                              *)

\* Every step keeps the types.
LEMMA TypeKept ==
    ASSUME NodeTypeOK, [NodeNext]_nodeVars
    PROVE  NodeTypeOK'
<1> USE NodeClientAssumption DEF NodeTypeOK, Height, Level, P2P, Settlement
<1>1. ASSUME NEW h \in Height, NEW l \in expected, AnswerFromCache(h, l) PROVE NodeTypeOK'
      BY <1>1 DEF AnswerFromCache, Answer, Idle, None
<1>2. ASSUME NEW h \in Height, NEW l \in expected, AskNodes(h, l) PROVE NodeTypeOK'
      BY <1>2 DEF AskNodes, Question
<1>3. ASSUME NEW n \in Node, nodeBlockValidated(n) \/ NodeFails(n) PROVE NodeTypeOK'
      BY <1>3 DEF nodeBlockValidated, NodeFails
<1>4. CASE ConcludeError
      BY <1>4 DEF ConcludeError, Answer, AllReplied, Question
<1>5. CASE Conclude
  <2>1. Cardinality(Confirming) \in 0..Cardinality(Node)
        BY NodeSets DEF Confirming
  <2>   QED BY <1>5, <2>1 DEF Conclude, Answer, AllReplied, Question
<1>6. ASSUME NEW n \in Node, NEW l \in Level, Validate(n, l) PROVE NodeTypeOK'
      BY <1>6 DEF Validate
<1>7. CASE UNCHANGED nodeVars
      BY <1>7 DEF nodeVars
<1>   QED BY <1>1, <1>2, <1>3, <1>4, <1>5, <1>6, <1>7 DEF NodeNext

\* An answer from the cache is as good as the cached count.
LEMMA CacheAnswers ==
    ASSUME BackedInv, NEW h \in Height, Cached(h), NEW l \in Level, Lowest(l)
    PROVE  Backed(h, l)
<1>1. lastValidHeight.height \in Height /\ lastValidHeight.confirmations \in Nat
      BY DEF BackedInv, NodeTypeOK
<1>2. Cardinality(Backing(lastValidHeight.height, l)) <= Cardinality(Backing(h, l))
      BY <1>1, BackedBelow, NodeClientAssumption DEF BackedInv, Cached, Height, Level, P2P, Settlement
<1>3. /\ Cardinality(Backing(lastValidHeight.height, l)) \in Nat
      /\ Cardinality(Backing(h, l)) \in Nat
      BY NodeSets DEF Backing
<1>   QED BY <1>1, <1>2, <1>3, NodeClientAssumption
          DEF BackedInv, CacheBacked, Cached, Backed

\* The nodes that have confirmed the question back it, at any lower level.
LEMMA RepliesAnswer ==
    ASSUME BackedInv, question # Idle, NEW l \in Level, Lowest(l)
    PROVE  Cardinality(Confirming) <= Cardinality(Backing(question.height, l))
<1>1. question.height \in Height /\ question.level \in Level /\ l <= question.level
      BY DEF BackedInv, RepliesBacked, Question, Lowest
<1>2. Confirming \subseteq Backing(question.height, question.level)
      BY DEF BackedInv, RepliesBacked, Confirming
<1>3. Backing(question.height, question.level) \subseteq Backing(question.height, l)
      BY <1>1, BackingAntitone, NodeClientAssumption DEF BackedInv, Height
<1>   QED BY <1>2, <1>3, NodeSets DEF Backing

\* Every step keeps what a yes is backed by.
LEMMA BackedKept ==
    ASSUME BackedInv, [NodeNext]_nodeVars
    PROVE  BackedInv'
<1>0. NodeTypeOK'
      BY TypeKept DEF BackedInv
<1>1. ASSUME NEW h \in Height, NEW l \in expected, AnswerFromCache(h, l) PROVE BackedInv'
  <2>1. UNCHANGED <<expected, validated, lastValidHeight, question, replies>> /\ Cached(h)
        BY <1>1 DEF AnswerFromCache
  <2>2. \A k \in Level : Lowest(k) => Backed(h, k)
        BY <2>1, CacheAnswers
  <2>3. YesBacked'
        BY <1>1, <2>1, <2>2 DEF AnswerFromCache, Answer, YesBacked, Lowest, Backed, Backing, ResultOf
  <2>   QED BY <1>0, <2>1, <2>3
            DEF BackedInv, CacheBacked, RepliesBacked, Lowest, Backing, ResultOf
<1>2. ASSUME NEW h \in Height, NEW l \in expected, AskNodes(h, l) PROVE BackedInv'
  <2>1. RepliesBacked'
        BY <1>2 DEF AskNodes, RepliesBacked, Question, BackedInv, NodeTypeOK
  <2>2. YesBacked'
        BY <1>2 DEF AskNodes, YesBacked, Yes
  <2>   QED BY <1>0, <1>2, <2>1, <2>2
            DEF AskNodes, BackedInv, CacheBacked, Lowest, Backing, ResultOf
<1>3. ASSUME NEW n \in Node, nodeBlockValidated(n) \/ NodeFails(n) PROVE BackedInv'
  <2>1. UNCHANGED <<expected, validated, lastValidHeight, question, answer>>
        BY <1>3 DEF nodeBlockValidated, NodeFails
  <2>2. \A m \in Node : replies'[m] = "yes" =>
            \/ replies[m] = "yes"
            \/ m = n /\ ResultOf(n, question.height) >= question.level
        BY <1>3 DEF nodeBlockValidated, NodeFails, BackedInv, NodeTypeOK
  <2>3. RepliesBacked'
        BY <2>1, <2>2 DEF BackedInv, RepliesBacked, Backing, ResultOf
  <2>   QED BY <1>0, <2>1, <2>3
            DEF BackedInv, CacheBacked, YesBacked, Yes, Lowest, Backed, Backing, ResultOf
<1>4. CASE ConcludeError
  <2>1. YesBacked'
        BY <1>4 DEF ConcludeError, Answer, YesBacked, Yes
  <2>2. RepliesBacked'
        BY <1>4 DEF ConcludeError, RepliesBacked
  <2>   QED BY <1>0, <1>4, <2>1, <2>2
            DEF ConcludeError, BackedInv, CacheBacked, Lowest, Backing, ResultOf
<1>5. CASE Conclude
  <2>1. UNCHANGED <<expected, validated>> /\ question # Idle
        BY <1>5 DEF Conclude, AllReplied
  <2>2. \A l \in Level : Lowest(l) =>
            Cardinality(Confirming) <= Cardinality(Backing(question.height, l))
        BY <2>1, RepliesAnswer
  <2>3. CacheBacked'
        BY <1>5, <2>1, <2>2 DEF Conclude, CacheBacked, Lowest, Backing, ResultOf
  <2>4. YesBacked'
    <3>1. /\ Cardinality(Confirming) \in Nat
          /\ \A l \in Level : Cardinality(Backing(question.height, l)) \in Nat
          BY NodeSets DEF Confirming, Backing
    <3>   QED BY <1>5, <2>1, <2>2, <3>1, NodeClientAssumption
              DEF Conclude, Answer, YesBacked, Yes, Lowest, Backed, Backing, ResultOf
  <2>5. RepliesBacked'
        BY <1>5 DEF Conclude, RepliesBacked
  <2>   QED BY <1>0, <2>1, <2>3, <2>4, <2>5 DEF BackedInv
<1>6. ASSUME NEW n \in Node, NEW k \in Level, Validate(n, k) PROVE BackedInv'
  <2>1. UNCHANGED <<expected, lastValidHeight, question, replies, answer, confirmed>>
        BY <1>6 DEF Validate
  <2>2. \A h \in Height, l \in Level : Backing(h, l) \subseteq Backing(h, l)'
        BY <1>6, BackingGrows DEF BackedInv
  <2>3. \A h \in Height, l \in Level :
            /\ Cardinality(Backing(h, l)) \in Nat /\ Cardinality(Backing(h, l)') \in Nat
            /\ Cardinality(Backing(h, l)) <= Cardinality(Backing(h, l)')
    <3>1. \A h \in Height, l \in Level : Backing(h, l)' \subseteq Node
          BY DEF Backing
    <3>   QED BY <2>2, <3>1, NodeSets
  <2>4. lastValidHeight.height \in Height /\ lastValidHeight.confirmations \in Nat
        BY DEF BackedInv, NodeTypeOK
  <2>5. CacheBacked'
        BY <2>1, <2>3, <2>4 DEF BackedInv, CacheBacked, Lowest
  <2>6. RepliesBacked'
        BY <2>1, <2>2 DEF BackedInv, RepliesBacked, Question, NodeTypeOK
  <2>7. YesBacked'
    <3>1. Yes => answer.height \in Height
          BY DEF Yes, BackedInv, NodeTypeOK
    <3>   QED BY <2>1, <2>3, <3>1, NodeClientAssumption
              DEF BackedInv, YesBacked, Yes, Lowest, Backed
  <2>   QED BY <1>0, <2>1, <2>5, <2>6, <2>7 DEF BackedInv
<1>7. CASE UNCHANGED nodeVars
      BY <1>0, <1>7 DEF nodeVars, BackedInv, CacheBacked, RepliesBacked, YesBacked, Yes,
                        Lowest, Backed, Backing, ResultOf
<1>   QED BY <1>1, <1>2, <1>3, <1>4, <1>5, <1>6, <1>7 DEF NodeNext, BackedInv, NodeTypeOK

\* A single expected level is the lowest.
LEMMA OnlyLevel ==
    ASSUME NEW l \in Level, expected = {l}
    PROVE  Lowest(l)
BY DEF Lowest, Level, P2P, Settlement

\* What is confirmed stays backed when a backed height is answered yes to.
LEMMA AnswerKept ==
    ASSUME BackedInv, KeptInv, NEW l \in Level, expected = {l},
           NEW h \in Height, NEW result \in {"yes", "no", "error"}, Answer(h, l, result),
           result = "yes" => Backed(h, l),
           result = "no" => h > confirmed[l],
           UNCHANGED <<expected, validated>>, question' = Idle
    PROVE  KeptInv'
<1> SUFFICES ASSUME NEW k \in Level, expected' = {k}
             PROVE  /\ Backed(confirmed[k], k)'
                    /\ answer' # Idle /\ answer'.result = "no" =>
                          answer'.level = k /\ answer'.height > confirmed'[k]
    BY DEF KeptInv
<1>1. k = l
      OBVIOUS
<1>2. confirmed'[l] = IF result = "yes" /\ h > confirmed[l] THEN h ELSE confirmed[l]
      BY DEF Answer, BackedInv, NodeTypeOK
<1>3. Backed(confirmed[l], l)
      BY DEF KeptInv
<1>   QED BY <1>1, <1>2, <1>3 DEF Answer, Backed, Backing, ResultOf

\* Every step keeps a confirmed height from being taken back.
LEMMA KeptKept ==
    ASSUME BackedInv, KeptInv, [NodeNext]_nodeVars
    PROVE  KeptInv'
<1>1. ASSUME NEW h \in Height, NEW l \in expected, AnswerFromCache(h, l) PROVE KeptInv'
  <2> SUFFICES ASSUME NEW k \in Level, expected = {k} PROVE KeptInv'
      BY <1>1 DEF AnswerFromCache, KeptInv
  <2>1. l = k /\ Backed(h, k)
        BY <1>1, CacheAnswers, OnlyLevel DEF AnswerFromCache
  <2>2. /\ Answer(h, k, "yes") /\ question' = Idle
        /\ UNCHANGED <<expected, validated>>
        BY <1>1, <2>1 DEF AnswerFromCache
  <2>   QED BY <2>1, <2>2, AnswerKept
<1>2. ASSUME NEW h \in Height, NEW l \in expected, AskNodes(h, l) PROVE KeptInv'
  <2> SUFFICES ASSUME NEW k \in Level, expected = {k}, h <= confirmed[k]
               PROVE  Cardinality(Willing(k)') >= MinConfirmations
      BY <1>2 DEF AskNodes, KeptInv, Backed, Backing, ResultOf
  <2>1. Willing(k)' = Backing(h, k)
        BY <1>2 DEF AskNodes, Willing, Backing, ResultOf
  <2>2. confirmed[k] \in Height
        BY DEF BackedInv, NodeTypeOK
  <2>3. Cardinality(Backing(confirmed[k], k)) <= Cardinality(Backing(h, k))
        BY <2>2, BackedBelow, NodeClientAssumption DEF BackedInv, Level, P2P, Settlement
  <2>4. /\ Cardinality(Backing(confirmed[k], k)) \in Nat
        /\ Cardinality(Backing(h, k)) \in Nat
        BY NodeSets DEF Backing
  <2>   QED BY <2>1, <2>3, <2>4, NodeClientAssumption DEF KeptInv, Backed
<1>3. ASSUME NEW n \in Node, nodeBlockValidated(n) \/ NodeFails(n) PROVE KeptInv'
  <2>1. UNCHANGED <<expected, validated, question, answer, confirmed>> /\ question # Idle
        BY <1>3 DEF nodeBlockValidated, NodeFails
  <2>2. question.level \in expected
        BY <2>1 DEF BackedInv, RepliesBacked
  <2>3. \A l \in Level : expected = {l} => Willing(l)' = Willing(l)
    <3> SUFFICES ASSUME NEW l \in Level, expected = {l}, NEW m \in Backing(question.height, l)
                 PROVE  replies'[m] = "no" <=> replies[m] = "no"
        BY <2>1 DEF Willing, Backing, ResultOf
    <3>   QED BY <1>3, <2>2 DEF nodeBlockValidated, NodeFails, BackedInv, NodeTypeOK, Backing
  <2>   QED BY <2>1, <2>3 DEF KeptInv, Backed, Backing, ResultOf
<1>4. CASE ConcludeError
  <2> SUFFICES ASSUME NEW l \in Level, expected = {l} PROVE KeptInv'
      BY <1>4 DEF ConcludeError, KeptInv
  <2>1. question.height \in Height /\ question.level = l
        BY <1>4 DEF ConcludeError, AllReplied, BackedInv, RepliesBacked, Question
  <2>   QED BY <1>4, <2>1, AnswerKept DEF ConcludeError
<1>5. CASE Conclude
  <2> SUFFICES ASSUME NEW l \in Level, expected = {l} PROVE KeptInv'
      BY <1>5 DEF Conclude, KeptInv
  <2> DEFINE result == IF Cardinality(Confirming) >= MinConfirmations THEN "yes" ELSE "no"
  <2>1. question # Idle /\ question.height \in Height /\ question.level = l
        BY <1>5 DEF Conclude, AllReplied, BackedInv, RepliesBacked, Question
  <2>2. /\ Cardinality(Confirming) <= Cardinality(Backing(question.height, l))
        /\ Cardinality(Confirming) \in Nat
        /\ Cardinality(Backing(question.height, l)) \in Nat
        BY <2>1, RepliesAnswer, OnlyLevel, NodeSets DEF Backing, Confirming
  <2>3. result = "yes" => Backed(question.height, l)
        BY <2>2, NodeClientAssumption DEF Backed
  <2>4. question.height <= confirmed[l] => result = "yes"
    <3> SUFFICES ASSUME question.height <= confirmed[l]
                 PROVE  Cardinality(Confirming) >= MinConfirmations
        OBVIOUS
    <3>1. Cardinality(Willing(l)) >= MinConfirmations
          BY <2>1 DEF KeptInv
    <3>2. Willing(l) \subseteq Confirming
          BY <1>5 DEF Conclude, AllReplied, Willing, Backing, Confirming, BackedInv, NodeTypeOK
    <3>   QED BY <2>2, <3>1, <3>2, NodeSets, NodeClientAssumption DEF Confirming
  <2>5. result = "no" => question.height > confirmed[l]
        BY <2>1, <2>4, NodeClientAssumption DEF BackedInv, NodeTypeOK, Height
  <2>6. /\ Answer(question.height, l, result) /\ question' = Idle
        /\ UNCHANGED <<expected, validated>>
        BY <1>5, <2>1 DEF Conclude
  <2>   QED BY <2>1, <2>3, <2>5, <2>6, AnswerKept
<1>6. ASSUME NEW n \in Node, NEW k \in Level, Validate(n, k) PROVE KeptInv'
  <2> SUFFICES ASSUME NEW l \in Level, expected = {l}
               PROVE  /\ Backed(confirmed[l], l)'
                      /\ question # Idle /\ question.height <= confirmed[l] =>
                            Cardinality(Willing(l)') >= MinConfirmations
      BY <1>6 DEF Validate, KeptInv
  <2>1. UNCHANGED <<confirmed, question, replies>>
        BY <1>6 DEF Validate
  <2>2. Backed(confirmed[l], l)'
    <3>1. PICK h \in Height : h = confirmed[l]
          BY DEF BackedInv, NodeTypeOK
    <3>2. Backing(confirmed[l], l)' = Backing(h, l)'
          BY <2>1, <3>1 DEF Backing, ResultOf
    <3>3. Backing(h, l) \subseteq Backing(h, l)' /\ Backing(h, l)' \subseteq Node
          BY <1>6, BackingGrows DEF BackedInv, Backing
    <3>4. /\ Cardinality(Backing(h, l)) <= Cardinality(Backing(h, l)')
          /\ Cardinality(Backing(h, l)) \in Nat /\ Cardinality(Backing(h, l)') \in Nat
          BY <3>3, NodeSets
    <3>   QED BY <3>1, <3>2, <3>4, NodeClientAssumption DEF KeptInv, Backed
  <2>3. ASSUME question # Idle, question.height <= confirmed[l]
        PROVE  Cardinality(Willing(l)') >= MinConfirmations
    <3>1. PICK h \in Height : h = question.height
          BY <2>3 DEF BackedInv, NodeTypeOK, Question
    <3>2. /\ Willing(l) = {n1 \in Backing(h, l) : replies[n1] # "no"}
          /\ Willing(l)' = {n1 \in Backing(h, l)' : replies[n1] # "no"}
          BY <2>1, <3>1 DEF Willing, Backing, ResultOf
    <3>3. Backing(h, l) \subseteq Backing(h, l)' /\ Backing(h, l)' \subseteq Node
          BY <1>6, BackingGrows DEF BackedInv, Backing
    <3>4. /\ Cardinality(Willing(l)) <= Cardinality(Willing(l)')
          /\ Cardinality(Willing(l)) \in Nat /\ Cardinality(Willing(l)') \in Nat
      <4>1. Willing(l) \subseteq Willing(l)' /\ Willing(l)' \subseteq Node
            BY <3>2, <3>3
      <4>   QED BY <4>1, NodeSets
    <3>   QED BY <2>3, <3>4, NodeClientAssumption DEF KeptInv
  <2>   QED BY <2>2, <2>3
<1>7. CASE UNCHANGED nodeVars
      BY <1>7 DEF nodeVars, KeptInv, Backed, Willing, Backing, ResultOf
<1>   QED BY <1>1, <1>2, <1>3, <1>4, <1>5, <1>6, <1>7 DEF NodeNext, BackedInv, NodeTypeOK

----------------------------------------------------------------------------
\* Both hold before anything has been asked.
LEMMA InitBacked == NodeInit => BackedInv /\ KeptInv
<1> SUFFICES ASSUME NodeInit PROVE BackedInv /\ KeptInv
    OBVIOUS
<1>1. NodeTypeOK /\ expected # {}
  <2>1. /\ Cardinality(Node) \in Nat /\ 0 \in 0..Cardinality(Node) /\ 0 \in Height
        BY NodeClientAssumption, FS_CardinalityType DEF Height
  <2>2. lastValidHeight \in [height : Height, confirmations : 0..Cardinality(Node)]
        BY <2>1 DEF NodeInit
  <2>3. validated \in [Node -> [Level -> Height]] /\ confirmed \in [Level -> Height]
        BY <2>1 DEF NodeInit
  <2>   QED BY <2>2, <2>3 DEF NodeInit, NodeTypeOK
<1>2. CacheBacked
      BY NodeSets DEF NodeInit, CacheBacked, Backing
<1>3. RepliesBacked /\ YesBacked
      BY DEF NodeInit, RepliesBacked, YesBacked, Yes
<1>4. KeptInv
      BY <1>1, ZeroBacked DEF NodeInit, KeptInv
<1>   QED BY <1>1, <1>2, <1>3, <1>4 DEF BackedInv

\* Both are invariants of the node client.
LEMMA Inductive == NodeSpec => [](BackedInv /\ KeptInv)
<1>1. BackedInv /\ KeptInv /\ [NodeNext]_nodeVars => (BackedInv /\ KeptInv)'
      BY BackedKept, KeptKept
<1>   QED BY <1>1, InitBacked, PTL DEF NodeSpec

(***************************************************************************)
(* The variables of the node client keep their types (node_client.go).     *)
(***************************************************************************)
THEOREM NodeTypeCorrect == NodeSpec => []NodeTypeOK
<1>1. BackedInv => NodeTypeOK
      BY DEF BackedInv
<1>   QED BY <1>1, Inductive, PTL

(***************************************************************************)
(* Whatever nodes reply, fail to reply or validate meanwhile, a yes is     *)
(* backed by as many nodes as have to agree, at the lowest level the       *)
(* client asks for (node_client.go:90-92 and 122-131).                     *)
(***************************************************************************)
THEOREM YesIsBacked == NodeSpec => []AnswersBacked
<1>1. BackedInv => AnswersBacked
  <2> SUFFICES ASSUME BackedInv, Yes
               PROVE  \E l \in expected : Lowest(l) /\ Backed(answer.height, l)
      BY DEF AnswersBacked, Lowest, Backed
  <2>1. PICK l \in expected : Lowest(l)
    <3>1. expected \subseteq {1, 2} /\ expected # {}
          BY DEF BackedInv, NodeTypeOK, Level, P2P, Settlement
    <3>2. 1 \in expected => Lowest(1)
          BY <3>1 DEF Lowest
    <3>3. 1 \notin expected => Lowest(2)
      <4>1. 1 \notin expected => expected = {2}
            BY <3>1
      <4>   QED BY <4>1 DEF Lowest
    <3>   QED BY <3>1, <3>2, <3>3 DEF Lowest
  <2>   QED BY <2>1 DEF BackedInv, NodeTypeOK, YesBacked
<1>   QED BY <1>1, Inductive, PTL

(***************************************************************************)
(* While one level is asked for, the cache forgets what it has confirmed,  *)
(* but no later answer denies it (node_client.go:126-129).                 *)
(***************************************************************************)
THEOREM YesIsKept == NodeSpec => []NotTakenBack
<1>1. BackedInv /\ KeptInv => NotTakenBack
  <2> SUFFICES ASSUME BackedInv, KeptInv, Cardinality(expected) = 1,
                      answer # Idle, answer.result = "no"
               PROVE  answer.height > confirmed[answer.level]
      BY DEF NotTakenBack
  <2>1. PICK l : expected = {l}
    <3>1. IsFiniteSet(Level)
      <4>1. 1 \in Int /\ 2 \in Int /\ Level = 1 .. 2
            BY DEF Level, P2P, Settlement
      <4>2. IsFiniteSet(1 .. 2)
            BY ONLY <4>1, FS_Interval, Zenon
      <4>   QED BY <4>1, <4>2
    <3>2. IsFiniteSet(expected)
          BY <3>1, FS_Subset DEF BackedInv, NodeTypeOK
    <3>   QED BY <3>2, FS_Singleton
  <2>2. l \in Level /\ answer.level = l /\ answer.height > confirmed[l]
        BY <2>1 DEF BackedInv, NodeTypeOK, KeptInv
  <2>   QED BY <2>1, <2>2
<1>   QED BY <1>1, Inductive, PTL
=============================================================================
