---------------------------- MODULE Composition ----------------------------
(***************************************************************************)
(* Composition of an inventory for one target: native gaps and their       *)
(* policies decide which assets are left out, the target's capability      *)
(* rules which of the others may be used, with an acknowledgment where a   *)
(* rule is advisory only, and the target's overlays what they contain.     *)
(* An error anywhere composes nothing.                                     *)
(*                                                                         *)
(* A body is a sequence of lines, [kind, level, text, ended], as           *)
(* strings.SplitAfter cuts it: a heading has a level and a text, a fence   *)
(* the marker that it starts with, and the last line need not be ended.    *)
(* What a line begins with tells its kind, whatever is added to it: one    *)
(* that is not ended holds more than blanks and number signs.  The sorted  *)
(* lists of the result are sets.                                           *)
(***************************************************************************)
EXTENDS SourceModel

-----------------------------------------------------------------------------
(* Frontmatter patches *)

Related(key, other) == IsPrefix(key, other) \/ IsPrefix(other, key)

\* Whether an object's key holds an object.
HoldsObject(object, key) == \E k \in DOMAIN object : IsStrictPrefix(key, k)

\* A null deletes a key, if an object of the base is patched there; inside an
\* object that the patch brings in whole it stays a value.
Deletes(base, patch, key) ==
    patch[key] = Null /\ (Len(key) = 1 \/ HoldsObject(base, Front(key)))

\* Objects are merged; whatever else a patch has takes the place of what the
\* base has at, above or below that key.
PatchFrontmatter(base, patch) ==
    LET kept == {k \in DOMAIN base : \A p \in DOMAIN patch : ~Related(k, p)}
        set == {p \in DOMAIN patch : ~Deletes(base, patch, p)}
    IN  [k \in kept \cup set |-> IF k \in set THEN patch[k] ELSE base[k]]

-----------------------------------------------------------------------------
(* Body patches *)

\* Before each line: the marker of the fence that is open there, or none.
FenceBefore(lines) ==
    LET fence[n \in 1..(Len(lines) + 1)] ==
            IF n = 1 THEN {}
            ELSE IF lines[n - 1].kind # "fence" THEN fence[n - 1]
            ELSE IF fence[n - 1] = {} THEN {lines[n - 1].text}
            ELSE fence[n - 1] \ {lines[n - 1].text}
    IN  fence

\* Headings outside of fences.
Headings(lines) ==
    LET fence == FenceBefore(lines) IN
    {n \in DOMAIN lines : lines[n].kind = "heading" /\ fence[n] = {}}

\* The text of the heading of a level that a heading stands under.
Ancestor(lines, heads, n, level) ==
    {lines[m].text : m \in {k \in heads :
        /\ k <= n /\ lines[k].level = level
        /\ \A j \in heads : k < j /\ j <= n => lines[j].level > level}}

Matches(lines, path) ==
    LET heads == Headings(lines) IN
    {n \in heads : /\ lines[n].level = Len(path)
                   /\ \A p \in DOMAIN path : Ancestor(lines, heads, n, p) = {path[p]}}

\* Mutant: a section ends at the next heading of any level.
SectionEnd_Any(lines, start) ==
    CHOOSE e \in start..Len(lines) :
        /\ \A n \in (start + 1)..e : lines[n].kind # "heading"
        /\ e < Len(lines) => lines[e + 1].kind = "heading"

\* A section ends before the next line that looks like a heading of its level
\* or above, in a fence or not.
SectionEnd(lines, start) ==
    CHOOSE e \in start..Len(lines) :
        /\ \A n \in (start + 1)..e : lines[n].kind # "heading" \/ lines[n].level > lines[start].level
        /\ e < Len(lines) => lines[e + 1].kind = "heading" /\ lines[e + 1].level <= lines[start].level

StartOf(lines, section) == CHOOSE n \in Matches(lines, section.path) : TRUE

SectionsApply(lines, sections) ==
    /\ \A i \in DOMAIN sections : \E n \in Matches(lines, sections[i].path) :
          Matches(lines, sections[i].path) = {n}
    /\ \A i, j \in DOMAIN sections :
          LET a == StartOf(lines, sections[i])
              b == StartOf(lines, sections[j])
          IN  a < b => SectionEnd(lines, a) <= b

\* The line that begins with a piece of text: one that is not ended goes on with
\* the pieces that follow.
LineOf(pieces, n) ==
    LET e == CHOOSE e \in n..Len(pieces) :
                 /\ \A m \in n..(e - 1) : ~pieces[m].ended
                 /\ pieces[e].ended \/ e = Len(pieces)
        run == SubSeq(pieces, n, e)
    IN  IF e = n THEN pieces[n]
        ELSE [pieces[n] EXCEPT !.text = FlattenSeq([i \in DOMAIN run |-> run[i].text]), !.ended = pieces[e].ended]

\* The lines of a text that is joined from pieces, with nothing between them.
JoinLines(pieces) ==
    FlattenSeq([n \in DOMAIN pieces |->
        IF n = 1 \/ pieces[n - 1].ended THEN <<LineOf(pieces, n)>> ELSE <<>>])

\* The lines of the sections go, and what replaces them follows the headings, as
\* it is: where it does not end its last line, the next heading is on that line.
ApplySections(lines, sections) ==
    LET starts == [i \in DOMAIN sections |-> StartOf(lines, sections[i])]
        gone == UNION {(starts[i] + 1)..SectionEnd(lines, starts[i]) : i \in DOMAIN sections}
        Inserted(n) == LET here == {i \in DOMAIN sections : starts[i] = n} IN
                       IF here = {} THEN <<>> ELSE sections[CHOOSE i \in here : TRUE].body
    IN  JoinLines(FlattenSeq([n \in DOMAIN lines |->
            (IF n \in gone THEN <<>> ELSE <<lines[n]>>) \o Inserted(n)]))

BodyPatchApplies(body, patch) == patch.mode = "sections" => SectionsApply(body, patch.sections)

ApplyBodyPatch(body, patch) ==
    IF patch.mode = "replace" THEN CHOOSE text \in patch.text : TRUE
                              ELSE ApplySections(body, patch.sections)

-----------------------------------------------------------------------------
(* Overlays *)

OverlayFor(a, target) == {a.overlays[i] : i \in {j \in DOMAIN a.overlays : a.overlays[j].target = target}}

\* Files that an overlay brings replace those it deletes or finds.
ApplyFiles(files, overlay) ==
    LET brought == {f.path : f \in ToSet(overlay.files)}
        kept == DOMAIN files \ ToSet(overlay.deletedFiles)
    IN  [p \in kept \cup brought |->
            IF p \in brought THEN (CHOOSE f \in ToSet(overlay.files) : f.path = p).content ELSE files[p]]

OverlayApplies(a, overlay) == \A patch \in overlay.bodyPatch : BodyPatchApplies(a.base.body, patch)

ApplyOverlay(base, overlay) ==
    [frontmatter |-> IF overlay.frontmatterPatch = {} THEN base.frontmatter
                     ELSE PatchFrontmatter(base.frontmatter, CHOOSE p \in overlay.frontmatterPatch : TRUE),
     body |-> IF overlay.bodyPatch = {} THEN base.body
              ELSE ApplyBodyPatch(base.body, CHOOSE p \in overlay.bodyPatch : TRUE),
     files |-> ApplyFiles(base.files, overlay)]

\* The end of a line, or an empty line.
Break == [kind |-> "text", level |-> 0, text |-> "", ended |-> TRUE]

JoinPreamble(preamble, body) ==
    IF preamble = <<>> THEN body ELSE IF body = <<>> THEN preamble
    ELSE JoinLines(preamble \o <<Break, Break>>) \o body

ContentFor(a, c) ==
    LET overlay == OverlayFor(a, c.target)
        content == IF overlay = {} THEN a.base ELSE ApplyOverlay(a.base, CHOOSE o \in overlay : TRUE)
    IN  IF a.kind = "skill" /\ c.preamble # {}
        THEN [content EXCEPT !.body = JoinPreamble(CHOOSE p \in c.preamble : TRUE, @)]
        ELSE content

-----------------------------------------------------------------------------
(* Native gaps *)

Selected(a, target) == a.targets = <<>> \/ target \in ToSet(a.targets)

\* The assets of an inventory, each with its package.
References(inv) == UNION {{<<p.identity, a>> : a \in ToSet(p.assets)} : p \in ToSet(inv.packages)}
Named(inv, id) == {r \in References(inv) : r[2].identity = id}

\* The asset that a gap is about, if it is about one.
GapAsset(inv, gap) == {r[2] : r \in {s \in References(inv) : s[1] = gap.package /\ s[2].identity \in gap.asset}}

SupportedNatively(a, target) ==
    /\ a.kind = "native-resource"
    /\ \/ target = "pi" /\ \E o \in a.native : o.piExtensions # <<>>
       \/ target = "antigravity" /\ a.native = {}

ElsewhereOnly(gap, target) == gap.target # {} /\ target \notin gap.target

\* The gaps that have to be decided for a target, and those that only make a
\* policy for their component count as used.
Bridged(inv, gap, target) == \E a \in GapAsset(inv, gap) : SupportedNatively(a, target)
Unselected(inv, gap, target) == \E a \in GapAsset(inv, gap) : ~Selected(a, target)
Open(inv, gap, target) == ~ElsewhereOnly(gap, target) /\ ~Bridged(inv, gap, target)
Decided(inv, target) == {g \in ToSet(inv.gaps) : Open(inv, g, target) /\ ~Unselected(inv, g, target)}

PolicyFor(c, gap) == {p \in ToSet(c.policies) : p.component = gap.component}

ReplacementExists(inv, gap, policy, target) ==
    \A id \in policy.replacement :
        /\ id \notin gap.asset
        /\ \E r \in Named(inv, id) : Named(inv, id) = {r} /\ Selected(r[2], target)

GapDecided(inv, c, gap) ==
    \E p \in PolicyFor(c, gap) : p.action = "replace" => ReplacementExists(inv, gap, p, c.target)

PoliciesUsed(inv, c) ==
    \A p \in ToSet(c.policies) : \E g \in ToSet(inv.gaps) : g.component = p.component /\ Open(inv, g, c.target)

GapsResolved(inv, c) == (\A g \in Decided(inv, c.target) : GapDecided(inv, c, g)) /\ PoliciesUsed(inv, c)

\* Assets whose gap is another target's, and those that a policy leaves out.
Excluded(inv, c) ==
    UNION {{<<g.package, id>> : id \in g.asset} :
              g \in {h \in ToSet(inv.gaps) : ElsewhereOnly(h, c.target)} \cup Decided(inv, c.target)}

-----------------------------------------------------------------------------
(* Capabilities *)

\* The state that a target's rules give a capability, if any.
RuleFor(c, key) == {r.state : r \in {s \in ToSet(c.rules) : s.key = key}}

AcknowledgmentsFor(a, target) == UNION {ToSet(o.acknowledgments) : o \in OverlayFor(a, target)}

UseAccepted(a, c, key) ==
    \/ RuleFor(c, key) \in {{"native"}, {"equivalent"}}
    \/ RuleFor(c, key) = {"advisory"} /\ \E ack \in AcknowledgmentsFor(a, c.target) : ack.key = key

\* Every acknowledgment is of an advisory use, and there is one of each.
AcknowledgmentsMatch(a, c) ==
    \A o \in OverlayFor(a, c.target) :
        /\ \A ack \in ToSet(o.acknowledgments) : ack.key \in ToSet(a.uses) /\ RuleFor(c, ack.key) = {"advisory"}
        /\ Distinct([i \in DOMAIN o.acknowledgments |-> o.acknowledgments[i].key])

AssetAccepted(a, c) ==
    /\ \A o \in OverlayFor(a, c.target) : OverlayApplies(a, o)
    /\ \A key \in ToSet(a.uses) : UseAccepted(a, c, key)
    /\ AcknowledgmentsMatch(a, c)

\* Nothing can acknowledge what a whole package uses.
PackageAccepted(p, c) == \A key \in ToSet(p.uses) : RuleFor(c, key) \in {{"native"}, {"equivalent"}}

-----------------------------------------------------------------------------
(* Compose *)

\* Mutant: assets that are for other targets are composed as well.
Included_All(inv, p, c) == {a \in ToSet(p.assets) : <<p.identity, a.identity>> \notin Excluded(inv, c)}
Included(inv, p, c) ==
    {a \in ToSet(p.assets) : Selected(a, c.target) /\ <<p.identity, a.identity>> \notin Excluded(inv, c)}

Composes(inv, c) ==
    /\ ValidSourceInventory(inv) /\ ValidTargetComposition(c)
    /\ GapsResolved(inv, c)
    /\ \A p \in ToSet(inv.packages) :
          PackageAccepted(p, c) /\ \A a \in Included(inv, p, c) : AssetAccepted(a, c)

\* A command is described by what its frontmatter says in the end.
DescriptionOf(content) ==
    IF DescriptionKey \in DOMAIN content.frontmatter THEN content.frontmatter[DescriptionKey] ELSE ""

ComposeAsset(a, c) ==
    LET content == ContentFor(a, c) IN
    [identity |-> a.identity, kind |-> a.kind, content |-> content, hook |-> a.hook,
     command |-> {[d EXCEPT !.description = DescriptionOf(content)] : d \in a.command},
     native |-> a.native, uses |-> a.uses]

ComposePackage(inv, p, c) ==
    [identity |-> p.identity, metadata |-> p.metadata, target |-> c.target,
     profile |-> IF c.profile = "" THEN "project" ELSE c.profile,
     uses |-> p.uses,
     assets |-> {ComposeAsset(a, c) : a \in Included(inv, p, c)},
     acknowledgments |-> UNION {AcknowledgmentsFor(a, c.target) : a \in Included(inv, p, c)}]

Compose(inv, c) == {ComposePackage(inv, p, c) : p \in ToSet(inv.packages)}
=============================================================================
