------------------------------ MODULE MCService ------------------------------
EXTENDS Service

Ask(auth, path, length, body, multi, calls) ==
  [auth |-> auth, path |-> path, length |-> length, body |-> body, multi |-> multi,
   calls |-> calls]
Page(auth, path) == Ask(auth, path, <<>>, 0, FALSE, <<"ok">>)

\* Calls: one in two pieces; a longer body than announced; an empty one; a negative
\* length; a multiCall that fails in the middle; one that knows not every method; an
\* unknown method; one without a length.  Then a page of each sort.
AllKinds ==
  {Ask("right", "api", <<2>>, 2, FALSE, <<"ok">>),
   Ask("right", "api", <<1>>, 2, FALSE, <<"throws">>),
   Ask("right", "api", <<0>>, 0, FALSE, <<"ok">>),
   Ask("malformed", "api", <<-1>>, 1, FALSE, <<"ok">>),
   Ask("right", "api", <<1>>, 1, TRUE, <<"ok", "throws", "ok">>),
   Ask("right", "api", <<1>>, 1, TRUE, <<"ok", "unknown">>),
   Ask("right", "api", <<1>>, 1, FALSE, <<"unknown">>),
   Page("malformed", "api"),
   Page("none", "guiMissing"), Page("right", "guiFile"), Page("right", "outside"),
   Page("wrong", "other"), Page("right", "/")}

\* The other client asks for a page, or calls in two pieces.
MCKinds ==
  [r \in Requests |-> IF r = "r1" THEN AllKinds
                     ELSE {Ask("right", "api", <<2>>, 2, FALSE, <<"ok">>), Page("right", "/")}]
=============================================================================
