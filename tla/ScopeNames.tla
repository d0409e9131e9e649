------------------------------ MODULE ScopeNames ------------------------------
(***************************************************************************)
(* The naming side of scopes (src/tally/scope.cc, scope_builder.cc): a    *)
(* scope is a normalised prefix with a tag map, and its id is the prefix, *)
(* then '+' and the tags as key=value in increasing key order, joined by  *)
(* ','.  ScopeInstance holds the root, sys and flag scopes, built once by *)
(* init_once with build_only and never registered, and a registry from   *)
(* id to scope.  These operators are shared by the registry's abstract    *)
(* specification (ScopeRegistry) and its model (Scope).                    *)
(*                                                                         *)
(* Strings are sequences of character codes and a tag map is a function   *)
(* from keys to values.  A scope object is its index in a sequence of the *)
(* scopes allocated: 1, 2 and 3 are the root, sys and flag scopes,        *)
(* NullScope is nullptr.                                                   *)
(***************************************************************************)
EXTENDS NormalizeName, SequencesExt

CONSTANTS
    RootName,       \* FLAGS_tally_root_scope_name
    SysName,        \* FLAGS_tally_sys_scope_name
    FlagName,       \* FLAGS_tally_flag_scope_name
    ScopeSep,       \* FLAGS_tally_scope_separator
    RootTagsFlag,   \* FLAGS_tally_root_scope_tags, unparsed
    SysTagsFlag,    \* FLAGS_tally_sys_scope_tags
    FlagTagsFlag    \* FLAGS_tally_flag_scope_tags

PLUS == 43
EQ == 61
COMMA == 44
SEMI == 59
COLON == 58

NullScope == 0
RootIdx == 1
SysIdx == 2
FlagIdx == 3
NoTags == [k \in {} |-> <<>>]

ASSUME RootName # <<>>

-----------------------------------------------------------------------------
\* std::string's operator<, by which scope_id sorts the keys.
RECURSIVE StrLess(_, _)
StrLess(a, b) ==
    IF a = <<>> THEN b # <<>>
    ELSE /\ b # <<>>
         /\ \/ a[1] < b[1]
            \/ a[1] = b[1] /\ StrLess(Tail(a), Tail(b))

\* Scope::scope_id(prefix, tags).
ScopeId(prefix, tags) ==
    LET keys == SetToSortSeq(DOMAIN tags, StrLess)
        item(i) == (IF i = 1 THEN <<>> ELSE <<COMMA>>) \o keys[i] \o <<EQ>> \o tags[keys[i]]
    IN prefix \o (IF keys = <<>> THEN <<>>
                  ELSE <<PLUS>> \o FlattenSeq([i \in 1 .. Len(keys) |-> item(i)]))

\* turbo::str_split(s, c, turbo::SkipEmpty()).
SplitSkipEmpty(s, c) ==
    LET keep(acc, piece) == IF piece = <<>> THEN acc ELSE Append(acc, piece)
        RECURSIVE Go(_, _, _)
        Go(i, piece, acc) ==
            CASE i > Len(s) -> keep(acc, piece)
              [] s[i] = c -> Go(i + 1, <<>>, keep(acc, piece))
              [] OTHER -> Go(i + 1, Append(piece, s[i]), acc)
    IN Go(1, <<>>, <<>>)

\* parse_tags: "k1:v1;k2:v2"; a segment that is not exactly two non-empty
\* pieces is skipped, and a later key overwrites an earlier one.
ParseTags(s) ==
    LET segs == SplitSkipEmpty(s, SEMI)
        RECURSIVE Go(_, _)
        Go(i, ret) ==
            IF i > Len(segs) THEN ret
            ELSE LET pair == SplitSkipEmpty(segs[i], COLON)
                 IN Go(i + 1, IF Len(pair) = 2 THEN (pair[1] :> pair[2]) @@ ret ELSE ret)
    IN Go(1, NoTags)

\* sub_cope_impl's merge: the parent's tags are inserted first, and
\* flat_hash_map::insert keeps a key already present.
SubScopeTags(parent, provided) == parent @@ provided

\* Scope::fully_qualified_name with the scope's own separator.
FullName(prefix, name) == IF prefix = <<>> THEN name ELSE prefix \o ScopeSep \o name

\* The scope build() and build_only() construct for a non-empty prefix.
MakeScope(prefix, tags) ==
    LET normed == ToUnderscoredName(<<>>, prefix)
    IN [prefix |-> normed, id |-> ScopeId(normed, tags), tags |-> tags]

\* init_once: the root scope and its sys and flag sub-scopes (build_only).
Defaults ==
    LET root == MakeScope(RootName, ParseTags(RootTagsFlag))
    IN << root,
         MakeScope(FullName(root.prefix, SysName), SubScopeTags(root.tags, ParseTags(SysTagsFlag))),
         MakeScope(FullName(root.prefix, FlagName), SubScopeTags(root.tags, ParseTags(FlagTagsFlag))) >>

\* The prefix and tags a request hands to the builder: ScopeBuilder
\* directly, or sub_scope(name, tags) / tagged(tags) of a default scope.
\* (Only the default scopes, which never change, are parents.)
BuildPrefix(rq) ==
    CASE rq.kind = "build" -> rq.name
      [] rq.kind = "sub" -> FullName(Defaults[rq.parent].prefix, rq.name)
      [] rq.kind = "tagged" -> Defaults[rq.parent].prefix
BuildTags(rq) ==
    IF rq.kind = "build" THEN rq.tags ELSE SubScopeTags(Defaults[rq.parent].tags, rq.tags)

\* The scope a request asks for, and its id.
Wanted(rq) == MakeScope(BuildPrefix(rq), BuildTags(rq))


\* ScopeInstance::get_scope(id) over a registry reg: root, flag, sys,
\* then reg.
GetScope(reg, id) ==
    CASE id = Defaults[RootIdx].id -> RootIdx
      [] id = Defaults[FlagIdx].id -> FlagIdx
      [] id = Defaults[SysIdx].id -> SysIdx
      [] id \in DOMAIN reg -> reg[id]
      [] OTHER -> NullScope

NoScopes == [id \in {} |-> NullScope]

=============================================================================
