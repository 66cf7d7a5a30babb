------------------------------ MODULE MCPrompt ------------------------------
(* The instance of Prompt for TLC.                                         *)
EXTENDS Prompt

\* A prompt that begins within a line and whose second character takes two bytes.
MCPattern == <<"p", "lead", "cont">>

\* A prompt with text around it, half a prompt, a byte that is no text.
MCAnswers == {<<"t", "p", "lead", "cont">>, <<"p", "lead", "cont", "t">>, <<"p", "t">>,
              <<"t", "bad">>}

=============================================================================
