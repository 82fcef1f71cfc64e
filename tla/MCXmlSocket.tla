----------------------------- MODULE MCXmlSocket -----------------------------
EXTENDS XmlSocket

\* Bytes: 0 ends a message, 9 is not UTF-8.
MCChunks == {<<0>>, <<1>>, <<9>>, <<0, 1>>, <<1, 0>>, <<1, 0, 0>>}
=============================================================================
