---- MODULE MCOverlayFiles ----
EXTENDS OverlayFiles

ByName == <<<<"d">>, <<"d", "a">>, <<"d", "b">>, <<"t">>, <<"t", "x">>>>
AllPaths == ToSet(ByName)
Numbered == [p \in AllPaths |-> CHOOSE i \in DOMAIN ByName : ByName[i] = p]

Tree(nodes) == [p \in Paths |-> IF p \in DOMAIN nodes THEN nodes[p] ELSE "none"]

\* A snapshot of one directory; a host directory t with a file x, and one with
\* a device x, where the device is the fallback root and t a virtual directory.
Snapshots == {Tree(<<"d">> :> "dir" @@ <<"d", "a">> :> "original")}
HostsWithRoots ==
  {[tree |-> Tree(<<"t">> :> "dir" @@ <<"t", "x">> :> "original"), roots |-> {<<"t">>}],
   [tree |-> Tree(<<"t">> :> "dir" @@ <<"t", "x">> :> "device"), roots |-> {<<"t", "x">>}]}
Target == <<"d", "b">>
Links == {<<"d", "a">>}
Listed == {<<"d">>}
====
