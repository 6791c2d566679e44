--------------------------- MODULE ResponseGrammar ---------------------------
(***************************************************************************)
(* The productions of parser.go, fetch.go and body.go, as the instructions *)
(* that ResponseParser executes.                                           *)
(*                                                                         *)
(* A function that does not choose is a sequence of instructions and is    *)
(* written where it is called.  One that looks ahead, or a loop, is a      *)
(* table from what lies ahead to instructions; "else" is its default, and  *)
(* a table without it fails when nothing matches.  A loop names itself.    *)
(***************************************************************************)
EXTENDS Sequences, TLC

LOCAL Instruction(op, arg) == [op |-> op, arg |-> arg]

Expect(unit) == Instruction("expect", unit)     \* consume this unit, or fail
Skip         == Instruction("skip", "")         \* consume what the caller has seen
Copy         == Instruction("copy", "")         \* move one unit into the last value
Do(name)     == Instruction("do", name)         \* a table, by what lies ahead
Switch(name) == Instruction("switch", name)     \* a table, by the word read last
Run(class)   == Instruction("run", class)       \* read a maximal run of units
Number       == Instruction("number", "")
Take         == Instruction("take", "")         \* the octets of a literal
Put(value)   == Instruction("put", value)       \* a value that is not on the wire
Open         == Instruction("open", "")         \* begin a list or a struct ...
Close(kind)  == Instruction("close", kind)      \* ... and end it
Set          == Instruction("set", "")          \* OrderedAttr.Set, OrderedInts.Set
Until(elem)  == Instruction("until", elem)      \* elem (SP elem)* up to ")"

Struct(kind, body) == <<Open>> \o body \o <<Close(kind)>>
Otherwise(body)    == "else" :> body

SP   == Expect(" ")
CRLF == Expect("CRLF")

\* "(" elem SP elem ... ")", where each elem adds to the list.
ParenthesisedList(kind, elem) == <<Expect("(")>> \o Struct(kind, <<Until(elem)>>)

-----------------------------------------------------------------------------
(* tokens *)

optSP == " " :> <<Skip>> @@ Otherwise(<<>>)

quoted     == <<Expect("\""), Put("empty"), Do("quotedRest")>>
quotedRest == "\"" :> <<Skip>>
              @@ "\\" :> <<Skip, Copy, Do("quotedRest")>>
              @@ Otherwise(<<Copy, Do("quotedRest")>>)

literal == <<Expect("{"), Number, Expect("}"), CRLF, Take>>

str     == "\"" :> quoted @@ "{" :> literal
astring == "\"" :> quoted @@ "{" :> literal @@ Otherwise(<<Run("atom")>>)
nstring == "NIL?" :> <<Skip, Put("empty")>> @@ Otherwise(<<Do("str")>>)

\* The switch gives INBOX its canonical spelling.
mailbox     == <<Do("astring"), Switch("mailboxName")>>
mailboxName == "INBOX" :> <<>> @@ Otherwise(<<>>)

flag       == "\\" :> <<Skip, Do("systemFlag")>> @@ Otherwise(<<Run("atom")>>)
\* A defect to be caught: the wildcard flag is forgotten.
systemFlagAtom == Otherwise(<<Run("atom")>>)
systemFlag == "*" :> <<Skip, Put("star")>> @@ Otherwise(<<Run("atom")>>)
flagList   == ParenthesisedList("flags", "flag")

capabilityList == Struct("capabilities", <<Do("capabilities")>>)
capabilities   == " " :> <<Skip, Do("capability")>> @@ Otherwise(<<>>)
capability     == "]" :> <<>> @@ "eof" :> <<>>
                  @@ Otherwise(<<Run("ATOM"), Do("capabilities")>>)

-----------------------------------------------------------------------------
(* resp-text and resp-text-code *)

AtomCodes   == {"ALERT", "PARSE", "READ-ONLY", "READ-WRITE", "TRYCREATE", "NOMODSEQ",
                "COMPRESSIONACTIVE", "NOTSAVED", "HASCHILDREN", "CLOSED"}
NumberCodes == {"UIDVALIDITY", "UIDNEXT", "UNSEEN", "HIGHESTMODSEQ", "MODSEQ", "MAXSIZE"}

codeData ==
  [code \in AtomCodes |-> <<>>]
  @@ [code \in NumberCodes |-> <<SP, Number>>]
  @@ "PERMANENTFLAGS" :> <<SP>> \o flagList
  @@ "CAPABILITY" :> capabilityList
  @@ "APPENDUID" :> <<SP, Number, SP, Run("uidSet")>>
  @@ "COPYUID" :> <<SP, Number, SP, Run("uidSet"), SP, Run("uidSet")>>
  @@ "BADCHARSET" :> <<Do("charsets")>>
  @@ Otherwise(<<Do("codeText")>>)
charsets == " " :> <<Skip>> \o ParenthesisedList("charsets", "astring") @@ Otherwise(<<>>)
codeText == " " :> <<Skip, Run("bracketText")>> @@ Otherwise(<<>>)

respTextCode ==
  <<Skip>> \o Struct("code", <<Run("ATOM"), Switch("codeData")>>) \o <<Expect("]")>>

respText == "[" :> respTextCode \o <<Do("optSP"), Run("text")>>
            @@ Otherwise(<<Put("nil"), Run("text")>>)

-----------------------------------------------------------------------------
(* responses *)

continuationRequest ==
  <<Skip>> \o Struct("continuation", <<Do("optSP"), Do("respText")>>) \o <<CRLF>>

tagged ==
  Struct("tagged", <<Run("atom"), SP, Run("ATOM"), Switch("taggedName"), SP, Do("respText")>>)
  \o <<CRLF>>
taggedName == [name \in {"OK", "NO", "BAD"} |-> <<>>]

untagged     == <<Skip, SP>> \o Struct("untagged", <<Do("untaggedData")>>) \o <<CRLF>>
untaggedData == "digit?" :> <<Number, SP, Run("ATOM"), Switch("numericData")>>
                @@ Otherwise(<<Run("ATOM"), Switch("namedUntagged")>>)

flagsResp  == <<SP>> \o flagList
listResp   == <<SP>> \o flagList \o <<SP, Do("nstring"), SP>> \o mailbox
statusResp == <<SP>> \o mailbox \o <<SP>> \o ParenthesisedList("attr", "statusItem")
statusItem == Otherwise(<<Run("ATOM"), SP, Number, Set>>)
searchResp == Struct("numbers", <<Do("numbers")>>)
numbers    == " " :> <<Skip, Number, Do("numbers")>> @@ Otherwise(<<>>)

namedUntagged ==
  [name \in {"OK", "NO", "BAD", "BYE", "PREAUTH"} |-> <<SP, Do("respText")>>]
  @@ "FLAGS" :> flagsResp
  @@ [name \in {"LIST", "LSUB"} |-> listResp]
  @@ "STATUS" :> statusResp
  @@ "SEARCH" :> searchResp
  @@ "CAPABILITY" :> capabilityList

ParseResponse ==
  "+" :> continuationRequest @@ "*" :> untagged @@ Otherwise(tagged)

-----------------------------------------------------------------------------
(* FETCH *)

fetchData   == <<SP>> \o ParenthesisedList("attr", "msgAtt")
numericData == [name \in {"EXISTS", "RECENT", "EXPUNGE"} |-> <<>>] @@ "FETCH" :> fetchData

\* The name up to "[" and, after it, the section without its quotes and the
\* origin octet.
fetchAttName == <<Run("attName"), Do("sectionStart")>>
sectionStart == "[" :> <<Copy, Do("section")>> @@ Otherwise(<<>>)
section      == "]" :> <<Copy, Do("partial")>>
                @@ "\"" :> <<Skip, Do("quotedRest"), Do("section")>>
                @@ Otherwise(<<Copy, Do("section")>>)
partial      == "<" :> <<Copy, Do("origin")>> @@ Otherwise(<<>>)
origin       == ">" :> <<Copy>> @@ Otherwise(<<Copy, Do("origin")>>)

address  == <<Skip>> \o Struct("address", <<Do("nstring"), SP, Do("nstring"), SP,
                                            Do("nstring"), SP, Do("nstring")>>)
            \o <<Expect(")")>>
addrList == "NIL?" :> <<Skip, Open, Close("addresses")>>
            @@ Otherwise(<<Expect("(")>> \o Struct("addresses", <<Do("addresses")>>)
                         \o <<Expect(")")>>)
addresses == "(" :> address \o <<Do("addresses")>> @@ Otherwise(<<>>)

envelope ==
  <<Expect("(")>>
  \o Struct("envelope",
       <<Do("nstring"), SP, Do("nstring"),
         SP, Do("addrList"), SP, Do("addrList"), SP, Do("addrList"),
         SP, Do("addrList"), SP, Do("addrList"), SP, Do("addrList"),
         SP, Do("nstring"), SP, Do("nstring")>>)
  \o <<Expect(")")>>

\* An attribute that is not named here keeps the spelling of its name.
attValue ==
  "FLAGS" :> flagList
  @@ "MODSEQ" :> <<Expect("("), Number, Expect(")")>>
  @@ [name \in {"UID", "RFC822.SIZE"} |-> <<Number>>]
  @@ "INTERNALDATE" :> quoted
  @@ "ENVELOPE" :> envelope
  @@ [name \in {"BODYSTRUCTURE", "BODY"} |-> <<Do("bodyStructure")>>]
  @@ Otherwise(<<Do("nstring")>>)
msgAtt == Otherwise(fetchAttName \o <<SP, Switch("attValue"), Set>>)

-----------------------------------------------------------------------------
(* BODYSTRUCTURE *)

bodyStructure == Otherwise(<<Expect("("), Do("body"), Expect(")")>>)

extension   == " " :> <<Skip, Do("bodyExtItem"), Do("extension")>> @@ Otherwise(<<>>)
bodyExtItem ==
  "NIL?" :> <<Skip, Put("nil")>>
  @@ "(" :> <<Skip>> \o Struct("list", <<Until("bodyExtItem")>>)
  @@ "digit?" :> <<Number>>
  @@ Otherwise(<<Do("str")>>)

multipartBody ==
  Struct("multipart",
    Struct("parts", <<Do("parts")>>) \o <<SP, Do("str")>> \o Struct("extension", <<Do("extension")>>))
parts == "(" :> <<Do("bodyStructure"), Do("parts")>> @@ Otherwise(<<>>)

bodyParams == "NIL?" :> <<Skip, Put("nil")>>
              @@ Otherwise(ParenthesisedList("params", "bodyParam"))
bodyParam  == Otherwise(<<Do("str"), SP, Do("nstring"), Set>>)
bodyLines  == "TEXT?" :> <<SP, Number>> @@ Otherwise(<<Put("absent")>>)

singlepartBody ==
  Struct("singlepart",
    <<Do("str"), SP, Do("str"), SP, Do("bodyParams"), SP, Do("nstring"), SP, Do("nstring"),
      SP, Do("nstring"), SP, Number, Do("bodyLines")>>
    \o Struct("extension", <<Do("extension")>>))

body == "(" :> multipartBody @@ Otherwise(singlepartBody)

-----------------------------------------------------------------------------
Productions ==
  [ParseResponse |-> ParseResponse, taggedName |-> taggedName,
   untaggedData |-> untaggedData, numericData |-> numericData, namedUntagged |-> namedUntagged,
   respText |-> respText, codeData |-> codeData, charsets |-> charsets, codeText |-> codeText,
   optSP |-> optSP, quotedRest |-> quotedRest, str |-> str, astring |-> astring,
   nstring |-> nstring, mailboxName |-> mailboxName, flag |-> flag, systemFlag |-> systemFlag,
   capabilities |-> capabilities, capability |-> capability, statusItem |-> statusItem,
   numbers |-> numbers, msgAtt |-> msgAtt, attValue |-> attValue,
   sectionStart |-> sectionStart, section |-> section, partial |-> partial, origin |-> origin,
   addrList |-> addrList, addresses |-> addresses, bodyStructure |-> bodyStructure,
   body |-> body, parts |-> parts, extension |-> extension, bodyExtItem |-> bodyExtItem,
   bodyParams |-> bodyParams, bodyParam |-> bodyParam, bodyLines |-> bodyLines]
=============================================================================
