------------------------------ MODULE Timestamps ------------------------------
(***************************************************************************)
(* The book of timestamps of a simulation: the start of something is kept  *)
(* as pending under a key, and its end looks for a pending start with that *)
(* key, of which it becomes the endpoint. Tasks, reads, writes and copies  *)
(* of files have a table of pending starts each.                           *)
(*                                                                         *)
(* Samples of energy and of link usage have no end: MergedSamples is the   *)
(* trace that is kept of them.                                             *)
(***************************************************************************)
EXTENDS Integers, SequencesExt, FiniteSetsExt

Kinds == {"task", "read", "write", "copy"}
Ends == {"completion", "failure", "termination"}

\* A timestamp: `by` and `attempt` tell whose it is, the key is what the code compares: the
\* task, or the file and its locations.
IsStamp(s) == s.of \in Kinds /\ s.type \in Ends \cup {"start"}

\* `pairs` are the endpoints, <<start, end>>; `lost` is the exception of setEndpoints().
EmptyBook ==
    [stamps |-> {}, pairs |-> {}, pending |-> [k \in Kinds |-> {}], lost |-> FALSE]

WithKey(book, s) == {p \in book.pending[s.of] : p.key = s.key}

\* The table of the tasks is a map, which keeps the start it has; the others are multimaps.
Started(book, s) ==
    [book EXCEPT !.stamps = @ \cup {s},
                 !.pending[s.of] = IF s.of = "task" /\ WithKey(book, s) # {}
                                   THEN @ ELSE @ \cup {s}]

\* mutant
EndedAndKept(book, e) ==
    IF WithKey(book, e) = {}
    THEN {[book EXCEPT !.lost = TRUE]}
    ELSE {[book EXCEPT !.stamps = @ \cup {e}, !.pairs = @ \cup {<<s, e>>}] :
            s \in WithKey(book, e)}

\* The books there may be after an end: which of the starts with its key it is paired with is
\* up to the hash table.
Ended(book, e) ==
    IF WithKey(book, e) = {}
    THEN {[book EXCEPT !.lost = TRUE]}
    ELSE {[book EXCEPT !.stamps = @ \cup {e}, !.pairs = @ \cup {<<s, e>>},
                       !.pending[e.of] = @ \ {s}] :
            s \in WithKey(book, e)}

-------------------------------------------------------------------------------
(* Samples *)

\* A sample that equals the last two moves the last one, instead of being added.
AddSample(trace, sample) ==
    LET n == Len(trace)
    IN IF n >= 2 /\ trace[n - 1].value = trace[n].value /\ trace[n].value = sample.value
       THEN [trace EXCEPT ![n].date = sample.date]
       ELSE Append(trace, sample)

MergedSamples(samples) ==
    FoldLeft(AddSample, <<>>, samples)

\* The first and the last sample of every run of equal ones.
EndsOfRuns(samples) ==
    LET Inner(i) == /\ i > 1 /\ i < Len(samples)
                    /\ samples[i - 1].value = samples[i].value
                    /\ samples[i + 1].value = samples[i].value
        kept == {i \in DOMAIN samples : ~Inner(i)}
    IN [k \in 1 .. Cardinality(kept) |->
          samples[CHOOSE i \in kept : Cardinality({j \in kept : j <= i}) = k]]
===============================================================================
