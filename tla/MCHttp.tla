------------------------------- MODULE MCHttp -------------------------------
(* The requests of MCHttpTexts, each of which is understood if it arrives  *)
(* at once, and answered by texts that can be told apart.                  *)
EXTENDS MCHttpTexts, HttpAtOnce

ASSUME TextsAreUnderstood == UnderstoodAtOnce
ASSUME AnswersArePlain == PlainAnswers
=============================================================================
