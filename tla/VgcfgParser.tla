---------------------------- MODULE VgcfgParser ----------------------------
(***************************************************************************)
(* Parse of lvbackup/vgcfg/vgcfg.go: the recogniser generated from         *)
(* vgcfg.peg, and the actions of parser.go, which are run in order after   *)
(* the text has been recognised.                                           *)
(*                                                                         *)
(* A text is a sequence of tokens: spaces and comments, which no action    *)
(* looks at, are left out, and "?" stands for anything the grammar does    *)
(* not know (an escaped quote in a string, a list over several lines with  *)
(* a comma before the newline, a negative number).                         *)
(*                                                                         *)
(* The groups under construction are a function from paths (sequences of   *)
(* names) to the variables of the group there; the root is <<>>.           *)
(*                                                                         *)
(* vgcfgbackup starts every text with a comment, so that CONFIG, which     *)
(* wants at least one item, always has one, and Parse has no error to      *)
(* return but that of an action.                                           *)
(***************************************************************************)
EXTENDS Naturals, Sequences, SequencesExt, TLC

CONSTANT Texts   \* the texts to parse

Tokens == [kind : STRING, val : STRING]

\* A name has at least one character.
ASSUME TextsAssumption ==
  /\ Texts \subseteq Seq(Tokens)
  /\ \A t \in Texts : \A i \in 1..Len(t) : t[i].kind = "name" => t[i].val # ""

Token(kind, val) == [kind |-> kind, val |-> val]
Mark(kind) == Token(kind, "")
StringVal(val) == Token("string", val)
IntegerVal(val) == Token("integer", val)

\* A number ParseInt refuses: it does not fit into 64 bits, or begins with 0 and is not
\* octal.
Huge == Mark("huge")

VARIABLES
  text,      \* the tokens
  acts,      \* the actions Execute has before it
  root,      \* the groups
  curgroup,  \* the path of the current group
  varname, varvalues, islist,
  internalError

vars == <<text, acts, root, curgroup, varname, varvalues, islist, internalError>>
parserVars == <<curgroup, varname, varvalues, islist, internalError>>

-----------------------------------------------------------------------------
(* The grammar.  A rule that matches text from i on yields where the match *)
(* ends and the actions recorded in it; a rule that does not match leaves  *)
(* no actions, the recogniser backtracks over those of its parts.          *)

Match(end, actions) == [end |-> end, acts |-> actions]
NoMatch == Match(0, <<>>)

\* Only the first two kinds of action have an argument.
Act(op, arg) == [op |-> op, arg |-> arg]
Bare(op) == Act(op, Mark(""))

At(t, i, kind) == i <= Len(t) /\ t[i].kind = kind

\* STRING and INTEGER.
IsValue(t, i) == \E kind \in {"string", "integer", "huge"} : At(t, i, kind)

\* As many of them as there are.
Values(t, i) ==
  LET end == Min({j \in i..(Len(t) + 1) : ~IsValue(t, j)})
  IN Match(end, [k \in 1..(end - i) |-> Act("AddValue", t[i + k - 1])])

LISTRule(t, i) ==
  LET values == Values(t, i + 1)
  IN IF At(t, i, "[") /\ At(t, values.end, "]")
     THEN Match(values.end + 1, Append(values.acts, Bare("SetIsList")))
     ELSE NoMatch

VARIABLERule(t, i) ==
  LET value == IF IsValue(t, i + 2)
               THEN Match(i + 3, <<Act("AddValue", t[i + 2])>>)
               ELSE LISTRule(t, i + 2)
  IN IF At(t, i, "name") /\ At(t, i + 1, "=") /\ value # NoMatch
     THEN Match(value.end, <<Act("SetVarName", t[i])>> \o value.acts
                             \o <<Bare("AddVariable")>>)
     ELSE NoMatch

\* Wrong on purpose: what a plausible bug would make of the next definition.
ItemRuleMutant(t, i, items) ==
  LET var == VARIABLERule(t, i)
      inner == items[i + 2]
      begun == <<Act("SetVarName", t[i]), Bare("BeginGroup")>> \o inner.acts
  IN IF var # NoMatch THEN var
     ELSE IF ~(At(t, i, "name") /\ At(t, i + 1, "{")) THEN NoMatch
     ELSE IF At(t, inner.end, "}")
     THEN Match(inner.end + 1, Append(begun, Bare("EndGroup")))
     ELSE Match(inner.end, begun)

\* A variable, or a GROUP, in which items follow from i + 2 on.
ItemRule(t, i, items) ==
  LET var == VARIABLERule(t, i)
      inner == items[i + 2]
  IN IF var # NoMatch THEN var
     ELSE IF At(t, i, "name") /\ At(t, i + 1, "{") /\ At(t, inner.end, "}")
     THEN Match(inner.end + 1,
                <<Act("SetVarName", t[i]), Bare("BeginGroup")>>
                  \o inner.acts \o <<Bare("EndGroup")>>)
     ELSE NoMatch

\* The repetition of variables and groups of CONFIG and GROUP, from any token on: it
\* takes what it can and succeeds in any case (the newline after "{" counts as an item).
Items(t) ==
  LET items[i \in 1..(Len(t) + 1)] ==
        LET item == ItemRule(t, i, items)
            rest == items[item.end]
        IN IF item = NoMatch THEN Match(i, <<>>)
           ELSE Match(rest.end, item.acts \o rest.acts)
  IN items

\* CONFIG does not ask for the end of the text: what follows the last item it
\* understands is ignored without an error.
CONFIG(t) == Items(t)[1]

-----------------------------------------------------------------------------
(* The actions.                                                            *)

NoVars == [k \in {} |-> {}]

Init ==
  /\ text \in Texts
  /\ acts = CONFIG(text).acts
  /\ root = [g \in {<<>>} |-> NoVars]
  /\ curgroup = <<>>
  /\ varname = ""
  /\ varvalues = <<>>
  /\ islist = FALSE
  /\ internalError = FALSE

\* Execute takes the next action, whether or not an earlier one failed.
Do(op) ==
  /\ acts # <<>>
  /\ Head(acts).op = op
  /\ acts' = Tail(acts)
  /\ UNCHANGED text

\* What an action does that cannot do its work.
Fail ==
  /\ internalError' = TRUE
  /\ UNCHANGED <<root, curgroup, varname, varvalues, islist>>

SetVarName ==
  /\ Do("SetVarName")
  /\ \/ varname # "" /\ Fail
     \/ /\ varname = ""
        /\ varname' = Head(acts).arg.val
        /\ UNCHANGED <<root, curgroup, varvalues, islist, internalError>>

\* Wrong on purpose: what a plausible bug would make of the next definition.
AddValueMutant ==
  /\ Do("AddValue")
  /\ varvalues' = Append(varvalues, Head(acts).arg)
  /\ UNCHANGED <<root, curgroup, varname, islist, internalError>>

\* AddStringValue and AddIntegerValue.
AddValue ==
  /\ Do("AddValue")
  /\ \/ Head(acts).arg = Huge /\ Fail
     \/ /\ Head(acts).arg # Huge
        /\ varvalues' = Append(varvalues, Head(acts).arg)
        /\ UNCHANGED <<root, curgroup, varname, islist, internalError>>

SetIsList ==
  /\ Do("SetIsList")
  /\ islist' = TRUE
  /\ UNCHANGED <<root, curgroup, varname, varvalues, internalError>>

\* Wrong on purpose: what a plausible bug would make of the next definition.
AddVariableMutant ==
  /\ Do("AddVariable")
  /\ root' = [root EXCEPT ![curgroup] =
                (varname :> [list |-> islist, vals |-> varvalues]) @@ @]
  /\ varname' = ""
  /\ varvalues' = <<>>
  /\ UNCHANGED <<curgroup, islist, internalError>>

\* A value is one element, or the elements of a list.  A later variable of the same
\* name replaces the earlier one.
AddVariable ==
  /\ Do("AddVariable")
  /\ \/ /\ varname = "" \/ (~islist /\ Len(varvalues) # 1)
        /\ Fail
     \/ /\ varname # ""
        /\ islist \/ Len(varvalues) = 1
        /\ root' = [root EXCEPT ![curgroup] =
                      (varname :> [list |-> islist, vals |-> varvalues]) @@ @]
        /\ varname' = ""
        /\ varvalues' = <<>>
        /\ islist' = FALSE
        /\ UNCHANGED <<curgroup, internalError>>

\* Wrong on purpose: what a plausible bug would make of the next definition.
BeginGroupMutant ==
  /\ Do("BeginGroup")
  /\ \/ varname = "" /\ Fail
     \/ /\ varname # ""
        /\ curgroup' = Append(curgroup, varname)
        /\ varname' = ""
        /\ UNCHANGED <<root, varvalues, islist, internalError>>

\* addSubGroup: a new group takes the place of one of the same name, with all
\* that was in it.
BeginGroup ==
  /\ Do("BeginGroup")
  /\ \/ varname = "" /\ Fail
     \/ /\ varname # ""
        /\ LET new == Append(curgroup, varname)
               others == {g \in DOMAIN root : ~IsPrefix(new, g)}
           IN /\ root' = [g \in others \cup {new} |-> IF g = new THEN NoVars ELSE root[g]]
              /\ curgroup' = new
        /\ varname' = ""
        /\ UNCHANGED <<varvalues, islist, internalError>>

EndGroup ==
  /\ Do("EndGroup")
  /\ \/ curgroup = <<>> /\ Fail
     \/ /\ curgroup # <<>>
        /\ curgroup' = Front(curgroup)
        /\ UNCHANGED <<root, varname, varvalues, islist, internalError>>

Done == acts = <<>>

\* Parse has returned.
Returned == Done /\ UNCHANGED vars

Next ==
  \/ SetVarName \/ AddValue \/ SetIsList \/ AddVariable \/ BeginGroup \/ EndGroup
  \/ Returned

Spec == Init /\ [][Next]_vars

-----------------------------------------------------------------------------
\* Parse returns an error exactly if a number in the recognised part of the text does
\* not fit: no other action ever fails that was not in the wake of one, and none that
\* runs after it covers it up.
ErrorReported ==
  Done => (internalError <=> \E i \in 1..(CONFIG(text).end - 1) : text[i] = Huge)

\* Whatever has failed, groups are entered and left in pairs, a variable always goes to
\* a group that hangs in the tree, and at the end the current group is the root.
GroupsBalanced ==
  /\ Done => curgroup = <<>>
  /\ curgroup \in DOMAIN root
  /\ \A g \in DOMAIN root \ {<<>>} : Front(g) \in DOMAIN root

=============================================================================
