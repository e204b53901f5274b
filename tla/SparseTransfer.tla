----------------------------- MODULE SparseTransfer -----------------------------
(***************************************************************************)
(* tempo/sparse_transfer.py: which tokens of a KV cache are hot, and so     *)
(* transferred.  Tokens are positions 1..SeqLen, their attention scores     *)
(* levels that are only compared.                                           *)
(***************************************************************************)
EXTENDS Integers, FiniteSets, Functions

CONSTANTS SeqLen,       \* tokens in the cache
          Levels,       \* of attention
          HotScore,     \* threshold
          MinTokens,    \* min_tokens
          RatioCount    \* int(seq_len * max_ratio)

ASSUME SparseAssumption ==
    SeqLen \in Nat /\ Levels \subseteq Int /\ HotScore \in Int /\ MinTokens \in Nat /\ RatioCount \in Nat

Tokens == 1..SeqLen

\* _attention_probe() of the probe query: a softmax, so any scores.
AttentionProbe == [Tokens -> Levels]

MaxCount == IF RatioCount > MinTokens THEN RatioCount ELSE MinTokens

AboveThreshold(scores) == {t \in Tokens : scores[t] >= HotScore}

\* np.argpartition(): MaxCount tokens of which no other has a higher score.  Of a
\* slice from -0 on, here and for the recent tokens, all are members.
TopTokens(scores) ==
    {top \in SUBSET Tokens :
        /\ Cardinality(top) = IF MaxCount = 0 THEN SeqLen ELSE MaxCount
        /\ \A t \in top, u \in Tokens \ top : scores[t] >= scores[u]}

Recent ==
    {t \in Tokens : SeqLen > MinTokens /\ (t > SeqLen - MinTokens \/ MinTokens = 0)}

\* _select_hot(): the sets it may choose.
SelectHot(scores) ==
    LET above == AboveThreshold(scores)
    IN  {hot \cup Recent : hot \in IF Cardinality(above) > MaxCount
                                   THEN TopTokens(scores) ELSE {above}}

\* The positions of the hot tokens, in order: before the i-th are i - 1 of them.
HotIndices(hot) ==
    [i \in 1..Cardinality(hot) |->
        CHOOSE t \in hot : Cardinality({u \in hot : u < t}) = i - 1]

\* filter(): the rows of the hot tokens packed, with their positions.
Filter(k, v, scores) ==
    {LET hot_indices == HotIndices(hot)
     IN  [k_sparse |-> [i \in DOMAIN hot_indices |-> k[hot_indices[i]]],
          v_sparse |-> [i \in DOMAIN hot_indices |-> v[hot_indices[i]]],
          hot_indices |-> hot_indices, context_len |-> SeqLen] : hot \in SelectHot(scores)}

Unpacked(rows, block, fill) ==
    [t \in 1..block.context_len |->
        LET at == {i \in DOMAIN block.hot_indices : block.hot_indices[i] = t}
        IN  IF at = {} THEN fill ELSE rows[CHOOSE i \in at : TRUE]]

\* reconstruct()
Reconstruct(block, fill) ==
    <<Unpacked(block.k_sparse, block, fill), Unpacked(block.v_sparse, block, fill)>>

-------------------------------------------------------------------------------
\* A token is left out only if it is cold, or if MaxCount others score as high.
OmittedIsCold(scores) ==
    \A hot \in SelectHot(scores) : \A t \in Tokens \ hot :
        \/ scores[t] < HotScore
        \/ \E top \in SUBSET hot :
               Cardinality(top) = MaxCount /\ \A u \in top : scores[u] >= scores[t]

\* The most recent tokens of a longer cache are transferred, and no more than
\* MaxCount tokens besides.
RecentAreKept(scores) ==
    \A hot \in SelectHot(scores) : Recent \subseteq hot /\ Cardinality(hot \ Recent) <= MaxCount

\* The receiver has every hot row of K and of V at its own position and the fill
\* value elsewhere, and a token was left out only if it is cold or crowded out.
RowsArrive(k, v, fill, scores) ==
    \A block \in Filter(k, v, scores) :
        LET hot == Range(block.hot_indices)
            got == Reconstruct(block, fill)
        IN  /\ \A t \in hot : got[1][t] = k[t] /\ got[2][t] = v[t]
            /\ \A t \in Tokens \ hot : got[1][t] = fill /\ got[2][t] = fill
===============================================================================
