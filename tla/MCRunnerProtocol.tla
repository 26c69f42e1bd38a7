-------------------------- MODULE MCRunnerProtocol --------------------------
(* Instances of RunnerProtocol for TLC.                                    *)
EXTENDS RunnerProtocol

\* What one write may write.
MCTexts == {<<"x">>, <<"wide", "wide", "nl">>, <<"bad">>, <<"huge", "nl">>,
            <<"OUT_END", "nl">>, <<"ERR", "nl">>, <<"DONE", "nl">>, <<"DONE", "rc", "nl">>}
=============================================================================
