------------------------------ MODULE MCSession ------------------------------
EXTENDS Session
CONSTANTS t, w

\* Two backends, ids "a" and "a__w", so that tool "w__t" of the first and tool
\* "t" of the second both would be exposed as "a__w__t".
MCBackends  == <<<<"a">>, <<"a", w>>>>
MCToolLists == {<<>>, <<<<t>>>>, <<Nameless, <<w, t>>, <<w, t>>>>}
MCCallNames == {<<"a", w, t>>, <<"a", t>>}
=============================================================================
