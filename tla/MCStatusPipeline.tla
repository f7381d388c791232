--------------------------- MODULE MCStatusPipeline ---------------------------
(* Instances of StatusPipeline for TLC. *)
EXTENDS StatusPipeline

CONSTANTS s1, s2, r1, w1, t1

\* A mature baseline of quiet hours: three reports alone make an outage, and so
\* does one report when the probes fail.
MCBaseline == [s \in Service |-> [mean |-> 0, stdDev |-> 0, weeks |-> 4,
                                  rate |-> 0, samples |-> 20]]
===============================================================================
