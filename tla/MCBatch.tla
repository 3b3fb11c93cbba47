------------------------------ MODULE MCBatch ------------------------------
(* A small instance of Batch: two users of one directory, two pairs and one *)
(* that a filter skips, and a few kinds of token counter.                   *)
EXTENDS Batch

CONSTANTS b1, b2

Pairs == << [model |-> "nova", subjects |-> <<"chat", "rag">>, skip |-> FALSE],
            [model |-> "nova", subjects |-> <<"gold">>, skip |-> TRUE],
            [model |-> "nova", subjects |-> <<"tiny">>, skip |-> FALSE] >>

Tokens == [s \in {"chat", "rag", "tiny", "gold"} |->
              CASE s = "chat" -> 512 [] s = "rag" -> 4096 [] s = "tiny" -> 60 [] s = "gold" -> 256]

OneDir == [i \in Invocations |-> "run-all"]

Tokenizer(count, usage, suffix, per, grain) ==
    [count_tokens |-> count, converse_usage |-> usage, suffix |-> suffix, per |-> per,
     grain |-> grain]

\* One that both counters show, a coarse one that only usage shows, and one that
\* neither does.
Tokenizers == { Tokenizer("answers", "answers", 29, 9, 1), Tokenizer("flat", "answers", 52, 3, 32),
                Tokenizer("raises", "flat", 30, 5, 1) }
=============================================================================
