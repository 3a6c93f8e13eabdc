------------------------------- MODULE MCReaders -------------------------------
EXTENDS Readers

\* Keys 1 and # as four bits, and a card of six, with its parity right, at one
\* door; another key at the other.  The first four bits of the card would be a key,
\* and so would the last four.
Key1 == <<0, 0, 0, 1>>
Hash == <<1, 0, 1, 1>>
ACard == <<0, 1, 1, 0, 0, 1>>
MCTransmissions == ({1} \X {Key1, Hash, ACard}) \cup {<<2, Key1>>}
=============================================================================
