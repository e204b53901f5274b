------------------------------- MODULE TraceLoader -------------------------------
(***************************************************************************)
(* tempo/trace_loader.py: the requests of a trace file, or of the fallback  *)
(* distribution, and their statistics.  Times are in parts of a second.  A  *)
(* row of the file says which of its fields parse; a column name is the set *)
(* of words that the loader looks for in it.                                *)
(***************************************************************************)
EXTENDS Integers, FiniteSets, Sequences, FiniteSetsExt, SequencesExt

CONSTANT Second         \* the parts of a second

ASSUME TraceAssumption == Second \in Nat \ {0}

\* The elements of S in their order: before the i-th are i - 1 of them.
Arranged(S, before(_, _)) ==
    [i \in 1..Cardinality(S) |->
        CHOOSE x \in S : Cardinality({y \in S : before(y, x)}) = i - 1]

AtLeastOne(n) == IF n > 1 THEN n ELSE 1

Request(arrival, input, output) ==
    [arrival |-> arrival, input |-> AtLeastOne(input), output |-> AtLeastOne(output)]

\* TraceLoader(): a path that is missing, or names no file, means "synthetic".
Source(given, exists, trace_type) == IF given /\ exists THEN trace_type ELSE "synthetic"

\* The columns without which _load_burstgpt() raises.
ColumnsFound(cols) ==
    \A words \in {{"time"}, {"input", "token"}, {"output", "token"}} :
        \E c \in cols : words \subseteq c

\* _load_burstgpt(): the trace begins at the first row whose timestamp parses,
\* even if that row is then skipped.  The first n good rows count, in the order
\* of the file; none is an error, which has no requests here.
LoadBurstgpt(rows, n, start) ==
    LET timed  == {i \in DOMAIN rows : rows[i].timed}
        t0     == rows[Min(timed)].ts
        good   == {i \in timed : rows[i].ts - t0 >= start /\ rows[i].tokens}
        taken  == {i \in good : Cardinality({j \in good : j < i}) < n}
        places == Arranged(taken, <)
    IN  [i \in DOMAIN places |->
            Request(rows[places[i]].ts - t0 - start, rows[places[i]].input,
                    rows[places[i]].output)]

Cumulative(gaps) == [i \in DOMAIN gaps |-> MapThenSumSet(LAMBDA j : gaps[j], 1..i)]

\* _load_sharegpt(): conversations have no time, so gaps are drawn.
LoadSharegpt(conversations, gaps, n) ==
    [i \in 1..Min({n, Len(conversations)}) |->
        Request(Cumulative(gaps)[i], conversations[i].human, conversations[i].gpt)]

\* _synthesise(), of gaps and token counts that are drawn.
Synthesise(gaps, shapes, n) ==
    [i \in 1..n |-> Request(Cumulative(gaps)[i], shapes[i].human, shapes[i].gpt)]

\* The sort of load(), which is stable.
Sorted(reqs) ==
    LET before(i, j) == \/ reqs[i].arrival < reqs[j].arrival
                        \/ reqs[i].arrival = reqs[j].arrival /\ i < j
        order == Arranged(DOMAIN reqs, before)
    IN  [i \in DOMAIN order |-> reqs[order[i]]]

Load(source, file, draws, n, start) ==
    Sorted(CASE source = "burstgpt" -> LoadBurstgpt(file, n, start)
             [] source = "sharegpt" -> LoadSharegpt(file, draws.gaps, n)
             [] OTHER -> Synthesise(draws.gaps, draws.shapes, n))

InterArrivalTimes(reqs) ==
    [i \in 1..(Len(reqs) - 1) |-> reqs[i + 1].arrival - reqs[i].arrival]

Duration(reqs) ==
    IF Len(reqs) > 1 THEN reqs[Len(reqs)].arrival - reqs[1].arrival ELSE Second

Between(reqs, first, last) ==
    Cardinality({i \in DOMAIN reqs : reqs[i].arrival >= first /\ reqs[i].arrival < last})

\* statistics(): whole seconds from zero on, as many as the trace is long.
PeakRps(reqs) ==
    IF Duration(reqs) > 0
    THEN Max({Between(reqs, t * Second, (t + 1) * Second) :
                  t \in 0..(Duration(reqs) \div Second)})
    ELSE Len(reqs)

\* write_csv()
WrittenColumns ==
    {{"id"}, {"arrival"}, {"input", "token"}, {"output", "token"}, {"model"},
     {"ttft"}, {"tpot"}, {"e2e"}, {"slo"}}

-------------------------------------------------------------------------------
\* load() of a file: requests in order, of which none lies before start; it takes
\* all the good rows or n of them, and of a file in the order of time the
\* earliest.
LoadsTheEarliest(rows, n, start) ==
    LET reqs == Load("burstgpt", rows, <<>>, n, start)
        all  == Load("burstgpt", rows, <<>>, Len(rows), start)
        inOrder == \A i, j \in DOMAIN rows : i < j => rows[i].ts <= rows[j].ts
    IN  /\ \A i \in DOMAIN reqs : reqs[i].arrival >= 0 /\ reqs[i].input >= 1
        /\ \A gap \in Range(InterArrivalTimes(reqs)) : gap >= 0
        /\ Len(reqs) = Min({n, Len(all)})
        /\ inOrder => reqs = SubSeq(all, 1, Len(reqs))

\* The peak is no more than that of the best second; it is at least half of that
\* when the trace begins at zero, since any second lies in two of the windows.
PeakIsHalfRight(reqs) ==
    LET best == Max({Between(reqs, reqs[i].arrival, reqs[i].arrival + Second) : i \in DOMAIN reqs})
    IN  /\ PeakRps(reqs) <= best
        /\ reqs[1].arrival = 0 => best <= 2 * PeakRps(reqs)

\* A trace that write_csv() wrote has no column of times, and cannot be loaded.
WrittenCannotBeLoaded == ~ColumnsFound(WrittenColumns)
===============================================================================
