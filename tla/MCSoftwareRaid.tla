---------------------------- MODULE MCSoftwareRaid ----------------------------
(* Machines and nodes for SoftwareRaid.                                      *)
EXTENDS SoftwareRaid

A(name, on) == [name |-> name, on |-> on]
Ld(name, level, max, root, hints) ==
  [name |-> name, software |-> TRUE, level |-> level, max |-> max, root |-> root,
   hints |-> hints]

\* No array; two over the same disks; two that share a disk; a RAIDed ESP; two on
\* disks of their own, of which one is a leftover without a name.
MCLayouts ==
  {<<>>,
   <<A("root", {<<1, 1>>, <<2, 1>>}), A("data", {<<1, 2>>, <<2, 2>>})>>,
   <<A("root", {<<1, 1>>, <<2, 1>>}), A("data", {<<2, 2>>, <<3, 1>>})>>,
   <<A("esp", {<<1, 2>>, <<2, 2>>}), A("data", {<<1, 1>>, <<2, 1>>})>>,
   <<A("none", {<<1, 1>>}), A("data", {<<2, 1>>, <<3, 1>>})>>}

OnPairs == <<{1, 2}, {1, 2, 3}>>
RootAndData(h) == <<Ld("root", "1", FALSE, "yes", h), Ld("data", "0", TRUE, "unset", h)>>
MCNodes ==
  {[skip |-> {}, lds |-> <<Ld("root", "1", FALSE, "yes", <<>>), Ld("none", "0", TRUE, "unset", <<>>)>>],
   [skip |-> {"data"}, lds |-> RootAndData(<<>>)],
   [skip |-> {}, lds |-> <<Ld("scratch", "1", TRUE, "no", OnPairs)>>],
   [skip |-> {"data"}, lds |-> <<Ld("data", "1", FALSE, "no", <<{2, 3}, {2, 3}>>),
                                 Ld("root", "1", TRUE, "yes", OnPairs)>>],
   [skip |-> {}, lds |-> <<Ld("root", "1", TRUE, "yes", <<>>), Ld("data", "5", TRUE, "no", <<>>)>>],
   [skip |-> {}, lds |-> <<[Ld("root", "1", TRUE, "yes", <<>>) EXCEPT !.software = FALSE]>>]}

MCFaults ==
  {{"wipefs"}, {"stop", "zero"}, {"rm"}, {"mklabel", "mkpart"}, {"create", "add"}, {"detail"},
   {"examine"}}
=============================================================================
