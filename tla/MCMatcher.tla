----------------------------- MODULE MCMatcher -----------------------------
(***************************************************************************)
(* A device on Windows 10 x64, build 19045, and ten drivers for it.        *)
(***************************************************************************)
EXTENDS Matcher

Undecorated == [version |-> 0, arch |-> 0, build |-> 0, score |-> 1]
Amd64       == [version |-> 100, arch |-> 2, build |-> 0, score |-> 164]
Amd64Vista  == [version |-> 60, arch |-> 2, build |-> 0, score |-> 160]
X86         == [version |-> 100, arch |-> 1, build |-> 0, score |-> 164]
Amd64Newer  == [version |-> 100, arch |-> 2, build |-> 22000, score |-> 165]

\* A signed driver for the first hardware id
Plain ==
  [id |-> "plain", pos |-> 0, hw |-> TRUE, infpos |-> 0, cats |-> {"any"}, nt |-> TRUE,
   feature |-> 16, path |-> NoFeature, date |-> 5, section |-> Amd64, sections |-> {Amd64},
   extension |-> FALSE, suits |-> TRUE, tweak |-> FALSE, catok |-> TRUE, marker |-> 1,
   twin |-> 1, torrent |-> FALSE]

Newer      == [Plain EXCEPT !.id = "newer", !.date = 7, !.twin = 2]
Compatible == [Plain EXCEPT !.id = "compatible", !.hw = FALSE, !.date = 8, !.twin = 3]
Featured   == [Plain EXCEPT !.id = "featured", !.feature = 0, !.date = 4, !.twin = 4]
Elsewhere  == [Plain EXCEPT !.id = "elsewhere", !.torrent = TRUE, !.marker = 2]
Online     == [Newer EXCEPT !.id = "online", !.torrent = TRUE, !.infpos = 1, !.twin = 5, !.feature = 0]
Unsigned   == [Plain EXCEPT !.id = "unsigned", !.cats = {"ntx86"}, !.date = 9, !.catok = FALSE,
                            !.sections = {Undecorated, Amd64Vista}, !.section = Amd64Vista, !.twin = 6]
Extension  == [Plain EXCEPT !.id = "extension", !.feature = 0, !.date = 9, !.extension = TRUE, !.twin = 7]
OtherArch  == [Plain EXCEPT !.id = "otherarch", !.section = X86, !.sections = {X86, Amd64Newer}, !.twin = 8]
InFeature  == [Plain EXCEPT !.id = "infeature", !.path = 8, !.twin = 9]

AllOffers == {Plain, Newer, Compatible, Featured, Elsewhere, Online, Unsigned, Extension, OtherArch, InFeature}

\* What Windows had, a driver that needs replacing, one better than all, and none
Inbox   == [rank |-> 8192, cats |-> {"any"}, nt |-> TRUE, feature |-> 255, date |-> 6, generic |-> FALSE]
Generic == [Inbox EXCEPT !.generic = TRUE]
Best    == [Inbox EXCEPT !.rank = 0, !.feature = 0, !.date = 5]
Same    == [Best EXCEPT !.feature = 16, !.date = 5]

AllCurrents == {Inbox, Generic, Best, Same, NoDriver}

AllOptions == {Default, {"WORSE", "OLD", "CURRENT"}, Default \cup {"INVALID"}}
=============================================================================
