-------------------------- MODULE MCResponseStream --------------------------
(* A small instance of ResponseStream for TLC: words of three letters for markers. *)
EXTENDS ResponseStream, TLC, SequencesExt

Letters == {"q", "t", "c", "e", "n", "r"}
Words == <<"q", "t", "c">> :> "completed" @@ <<"q", "t", "e">> :> "error"

\* Something before, at most one marker, and then line ends or another marker.
Before == {<<>>, <<"q">>, <<"q", "t">>, <<"n", "n">>}
Marked == {<<>>, <<"q", "t", "c">>, <<"q", "t", "e">>}
After == SeqOf({"n", "r"}, 5) \cup SeqOf({"n", "r", "t"}, 3)
           \cup {<<"q", "t", "e", "n", "n">>, <<"n", "q", "t", "c", "n", "n">>}

SomeStreams == {before \o marked \o after : before \in Before, marked \in Marked, after \in After}
=============================================================================
