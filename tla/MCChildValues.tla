----------------------------- MODULE MCChildValues -----------------------------
EXTENDS ChildValues

\* Image paths over a name character, '.' and '/', up to 5 characters:
\* "..", "a/..", "/a", "./a", "a//a", "a/./" and "..." all fit.
MCPathChars == {"a", ".", "/"}
\* Port keys that denote the same port (80, 080) and one past u16::MAX
\* (80800); allow_tcp_ports entries covering 80, 81 or both.
MCPortKeys == {<<"8", "0">>, <<"0", "8", "0">>, <<"8", "0", "8", "0", "0">>}
MCAllowStrings == {<<"8", "0">>, <<"8", "1">>, <<"8", "0", "-", "8", "1">>}
=============================================================================
