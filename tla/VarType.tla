-------------------------------- MODULE VarType --------------------------------
(***************************************************************************)
(* haste_vartype: the C++ type of a field, as a send table writes it, read *)
(* by a recursive descent that puts a suffix at a time around what it has. *)
(* A text is the sequence of the tokens in it; blanks only separate them.  *)
(***************************************************************************)
EXTENDS Integers, Sequences

\* TokenKind.
Punctuation(kind) == [kind |-> kind]
Name(ident)       == [kind |-> "Ident", ident |-> ident]
Number(num)       == [kind |-> "Lit", num |-> num]
UnknownChar       == [kind |-> "UnknownChar"]
Eof               == [kind |-> "Eof"]

\* Expr.
Ident(id)         == [expr |-> "Ident", ident |-> id]
Lit(num)          == [expr |-> "Lit", num |-> num]
Pointer(of)       == [expr |-> "Pointer", of |-> of]
Template(of, arg) == [expr |-> "Template", of |-> of, arg |-> arg]
Array(of, len)    == [expr |-> "Array", of |-> of, len |-> len]

next_token(text, i) == IF i \in DOMAIN text THEN text[i] ELSE Eof

\* Ok(expr), with the token that is next, and the errors.
Parsed(expr, i) == [ok |-> TRUE, expr |-> expr, next |-> i]
Unexpected(token) ==
  [ok |-> FALSE,
   error |-> CASE token.kind = "Eof"         -> "UnexpectedEof"
               [] token.kind = "UnknownChar" -> "UnknownChar"
               [] OTHER                      -> "UnexpectedToken"]

Length(token) == IF token.kind = "Ident" THEN Ident(token.ident) ELSE Lit(token.num)

RECURSIVE ParseType(_, _), WithSuffixes(_, _, _)

\* What an angle or a square makes of the expression before it.
TemplateSuffix(text, expr, arg) ==
  IF ~arg.ok THEN arg
  ELSE LET rangle == next_token(text, arg.next)
       IN IF rangle.kind = "RAngle"
          THEN WithSuffixes(text, arg.next + 1, Template(expr, arg.expr))
          ELSE Unexpected(rangle)

ArraySuffix(text, i, expr) ==
  LET len     == next_token(text, i + 1)
      rsquare == next_token(text, i + 2)
  IN IF len.kind \notin {"Ident", "Lit"} THEN Unexpected(len)
     ELSE IF rsquare.kind = "RSquare" THEN WithSuffixes(text, i + 3, Array(expr, Length(len)))
     ELSE Unexpected(rsquare)

\* The loop of parse: a closing token is left to the caller, and if there is none,
\* the rest of the text is not looked at.
WithSuffixes(text, i, expr) ==
  LET next == next_token(text, i)
  IN CASE next.kind = "LAngle"   -> TemplateSuffix(text, expr, ParseType(text, i + 1))
       [] next.kind = "LSquare"  -> ArraySuffix(text, i, expr)
       [] next.kind = "Asterisk" -> WithSuffixes(text, i + 1, Pointer(expr))
       [] next.kind \in {"RAngle", "RSquare", "Eof"} -> Parsed(expr, i)
       [] OTHER -> Unexpected(next)

ParseType(text, i) ==
  LET first == next_token(text, i)
  IN IF first.kind = "Ident" THEN WithSuffixes(text, i + 1, Ident(first.ident))
     ELSE Unexpected(first)

\* How a type is written.
RECURSIVE Written(_)
Written(e) ==
  CASE e.expr = "Ident"    -> <<Name(e.ident)>>
    [] e.expr = "Lit"      -> <<Number(e.num)>>
    [] e.expr = "Pointer"  -> Append(Written(e.of), Punctuation("Asterisk"))
    [] e.expr = "Template" -> Written(e.of) \o <<Punctuation("LAngle")>> \o Written(e.arg)
                              \o <<Punctuation("RAngle")>>
    [] e.expr = "Array"    -> Written(e.of) \o <<Punctuation("LSquare")>> \o Written(e.len)
                              \o <<Punctuation("RSquare")>>
==============================================================================
