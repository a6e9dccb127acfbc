----------------------------- MODULE OpTemplate -----------------------------
(***************************************************************************)
(* internal/optemplate: operation templates and how a request is matched   *)
(* against one.                                                            *)
(*                                                                         *)
(* Text is a string; a path is the sequence of what stands between its     *)
(* slashes ("" before a leading one).  A token of a template is a literal, *)
(* a placeholder with a name and a type, or malformed.  A query maps each  *)
(* parameter to the sequence of its values, a JSON body each dotted path   *)
(* to what stands there, a scalar or a structure.                          *)
(***************************************************************************)
EXTENDS Naturals, Sequences, Functions

CONSTANTS
  Decoded,    \* url.PathUnescape of the segments that it changes
  Malformed,  \* segments it rejects
  NumberOf,   \* the number each text that is one stands for
  DateTexts,  \* the texts that are dates
  UpperOf,    \* strings.ToUpper of the methods that it changes
  NoJSON      \* a body that is missing or does not parse

Literal(text)         == [kind |-> "lit", text |-> text, name |-> "", type |-> ""]
Placeholder(name, ty) == [kind |-> "var", text |-> "", name |-> name, type |-> ty]
BadToken              == [kind |-> "bad", text |-> "", name |-> "", type |-> ""]

VarTypes == {"text", "date", "number", "enum"}
ExemptQueryParams == {"page", "per_page", "pagination"}

Upper(method) == IF method \in DOMAIN UpperOf THEN UpperOf[method] ELSE method
Unescape(seg) == IF seg \in DOMAIN Decoded THEN Decoded[seg] ELSE seg

\* splitPath: the slashes at both ends do not count.
SplitPath(path) ==
  LET named == {i \in DOMAIN path : path[i] # ""} IN
  IF named = {} THEN <<>>
  ELSE SubSeq(path, CHOOSE i \in named : \A j \in named : i <= j,
                    CHOOSE i \in named : \A j \in named : j <= i)

-----------------------------------------------------------------------------
\* A placeholder well-formed: it has a name and a known type.
parsePlaceholder(tok) == tok.kind = "lit" \/ (tok.kind = "var" /\ tok.name # "" /\ tok.type \in VarTypes)

Tokens(t)      == Range(t.path) \cup Range(t.query) \cup Range(t.body)
Slots(part)    == {x \in DOMAIN part : part[x].kind = "var"}
VarsOf(part)   == {part[x].name : x \in Slots(part)}
TemplateVars(t) == VarsOf(t.path) \cup VarsOf(t.query) \cup VarsOf(t.body)

NamedOnce(part) == \A x, y \in Slots(part) : part[x].name = part[y].name => x = y

\* ParseWithBody: the template of a rule, unless a token is malformed, a
\* variable is named twice or the method is empty.
Parses(t) ==
  /\ t.method # ""
  /\ \A tok \in Tokens(t) : parsePlaceholder(tok)
  /\ NamedOnce(t.path) /\ NamedOnce(t.query) /\ NamedOnce(t.body)
  /\ VarsOf(t.path) \cap VarsOf(t.query) = {}
  /\ (VarsOf(t.path) \cup VarsOf(t.query)) \cap VarsOf(t.body) = {}

\* Key: what two templates of one shape share.  The path is taken as written;
\* a placeholder of the query or of the body counts with its type alone.
Key(t) ==
  LET shape(part) == [x \in DOMAIN part |-> <<part[x].kind, part[x].text, part[x].type>>]
  IN <<Upper(t.method), t.path, shape(t.query), shape(t.body)>>

\* text and enum take any value; their gate is the rule's.
typeValid(type, val) ==
  /\ type = "date" => val \in DateTexts
  /\ type = "number" => val \in DOMAIN NumberOf

-----------------------------------------------------------------------------
\* What a literal or a placeholder says of a value.
Fits(tok, val) == IF tok.kind = "lit" THEN val = tok.text ELSE typeValid(tok.type, val)

\* A literal segment is compared as it came, a placeholder's decoded: an encoded
\* slash stays inside its segment.
SegmentFits(tok, seg) ==
  IF tok.kind = "lit" THEN seg = tok.text ELSE seg \notin Malformed /\ Fits(tok, Unescape(seg))

\* (slip) A parameter nobody declared is let through.
QueryDeclared(t, query) == DOMAIN t.query \subseteq DOMAIN query

\* Every declared parameter is there, and no other but the exempt ones.
QueryCovered(t, query) ==
  /\ DOMAIN t.query \subseteq DOMAIN query
  /\ DOMAIN query \subseteq DOMAIN t.query \cup ExemptQueryParams

\* Match: the structure of method, path and query (of a repeated parameter, the
\* first value).
Match(t, req) ==
  LET segs == SplitPath(req.path) IN
  /\ Upper(req.method) = Upper(t.method)
  /\ Len(segs) = Len(t.path)
  /\ \A i \in DOMAIN segs : SegmentFits(t.path[i], segs[i])
  /\ QueryCovered(t, req.query)
  /\ \A n \in DOMAIN t.query : Len(req.query[n]) > 0 /\ Fits(t.query[n], req.query[n][1])

\* ExtractBody with lookupPath and jsonScalar: every declared path leads to a
\* scalar that fits; a template that declares none does not look at the body.
ExtractBody(t, body) ==
  \/ DOMAIN t.body = {}
  \/ /\ body # NoJSON
     /\ \A p \in DOMAIN t.body : p \in DOMAIN body /\ body[p].scalar /\ Fits(t.body[p], body[p].text)

\* The values a matching request has for the template's variables.
Extracted(t, req) ==
  LET segs == SplitPath(req.path)
      slot(part, v) == CHOOSE x \in Slots(part) : part[x].name = v
  IN [v \in TemplateVars(t) |->
        IF v \in VarsOf(t.path) THEN Unescape(segs[slot(t.path, v)])
        ELSE IF v \in VarsOf(t.query) THEN req.query[slot(t.query, v)][1]
        ELSE req.body[slot(t.body, v)].text]

-----------------------------------------------------------------------------
(* The reference: what a template promises to admit, read the other way     *)
(* round.  A request is an instance of a template when some values of the   *)
(* right types, written into the template, give the request.                *)

\* The token with a value written into it.
Written(tok, sigma) == IF tok.kind = "lit" THEN tok.text ELSE sigma[tok.name]

\* The request says exactly what the template says under sigma.
Renders(t, sigma, req) ==
  LET segs == SplitPath(req.path) IN
  /\ Upper(req.method) = Upper(t.method)
  /\ DOMAIN segs = DOMAIN t.path
  /\ \A i \in DOMAIN segs :
        IF t.path[i].kind = "lit" THEN segs[i] = t.path[i].text
        ELSE segs[i] \notin Malformed /\ Unescape(segs[i]) = sigma[t.path[i].name]
  /\ \A n \in DOMAIN req.query :
        n \in ExemptQueryParams \cup DOMAIN t.query
  /\ \A n \in DOMAIN t.query :
        n \in DOMAIN req.query /\ req.query[n] # <<>> /\ Head(req.query[n]) = Written(t.query[n], sigma)
  /\ \A p \in DOMAIN t.body :
        /\ req.body # NoJSON /\ p \in DOMAIN req.body
        /\ req.body[p] = [scalar |-> TRUE, text |-> Written(t.body[p], sigma)]

\* The values of the right types, out of texts, that render the request.
Renderings(t, req, texts) ==
  {sigma \in [TemplateVars(t) -> texts] :
     /\ \A tok \in Tokens(t) : tok.kind = "var" => typeValid(tok.type, sigma[tok.name])
     /\ Renders(t, sigma, req)}
=============================================================================
