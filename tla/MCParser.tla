------------------------------ MODULE MCParser ------------------------------
(***************************************************************************)
(* The parser on every text of a few lines out of a set of lines that has  *)
(* each class of instruction, labels with and without one, what looks like *)
(* a separator or a comment but is none, and numbers in odd places.        *)
(***************************************************************************)
EXTENDS Texts

Lines == {
    THREAD_SEPARATOR, Append(THREAD_SEPARATOR, Blank),
    <<>>, <<Slashes, Number(1)>>, <<Blank, Word("/")>>,
    <<Colon(1)>>, <<Colon(-1)>>,
    <<Colon(1), Number(0), Word("="), Number(1)>>,
    <<Blank, Number(-1), Word("="), Colon(1)>>,
    <<Number(0), Word("="), Number(4)>>, <<Colon(9)>>,
    <<Word("load"), Word("RLX"), Hash(-9), Number(0)>>,
    <<Number(0), Word("="), Number(1), Word("/"), Number(2)>>,
    <<Word("if"), Number(0), Word("goto"), Number(1)>>,
    <<Word("load"), Word("ACQ"), Hash(1), Number(0), Blank>>,
    <<Word("store"), Word("REL"), Hash(1), Number(0)>>,
    <<Word("cas"), Word("RLX"), Hash(1), Number(0), Number(2)>>,
    <<Word("fai"), Word("REL_ACQ"), Hash(1), Number(2)>>,
    <<Word("fence"), Word("SEQ_CST")>>}
=============================================================================
