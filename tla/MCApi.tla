------------------------------- MODULE MCApi --------------------------------
(***************************************************************************)
(* Values for the model-checking run of Api.                               *)
(***************************************************************************)
EXTENDS Api

\* Lengths around the limit of 128 and around what a dead letter queue adds.
LimitNames ==
    [len : {0, 124, 125, 128, 129}, plain : {TRUE}] \cup [len : {7}, plain : {FALSE}]

\* Numbers whose one byte is a digit or a bracket in JSON and their neighbours,
\* a number of two bytes, and the other kinds of values.
EdgeValues ==
    {Number(n) : n \in {5, 47, 48, 57, 58, 91, 123, 200}}
    \cup {Of(k) : k \in {"null", "true", "string", "array", "object"}}
=============================================================================
