-------------------------------- MODULE Url --------------------------------
(***************************************************************************)
(* What HttpClient::CallAsync makes of a URL: ParseUrl, and the parts of   *)
(* the request that come from its result.  A URL is a sequence of          *)
(* characters; a word the parser does not look into is one of them.        *)
(*                                                                         *)
(* A behaviour is a URL of the documented form, and the mistakes made in   *)
(* typing it.  The definitions that nothing uses (PathStartTooEarly...)    *)
(* are plausible mistakes in the operator that follows them, kept to show  *)
(* that the properties catch them.                                         *)
(***************************************************************************)
EXTENDS Integers, Sequences, SequencesExt

CONSTANTS
    Word,      \* characters and words without a meaning of their own
    Scheme,    \* the parts of the URLs that are typed: words, ...
    Host,      \* ... sequences of words, ...
    Port,      \* ... sequences of digits, <<>> for none, ...
    Path,      \* ... and <<>> or sequences that begin with a slash
    Typo,      \* characters that are typed by mistake
    MaxTypos   \* bound: characters too many or missing

Digits == <<"0", "1", "2", "3", "4", "5", "6", "7", "8", "9">>
Digit == {Digits[i] : i \in DOMAIN Digits}
Char == Word \cup Digit \cup {":", "/"}

ASSUME UrlAssumption ==
    /\ Scheme \subseteq Word
    /\ Host \subseteq Seq(Char) /\ Port \subseteq Seq(Char) /\ Path \subseteq Seq(Char)
    /\ Typo \subseteq Char
    /\ MaxTypos \in Nat

VARIABLES
    url,    \* the argument of CallAsync
    typos   \* mistakes made in it

vars == <<url, typos>>

-----------------------------------------------------------------------------
(* Strings and numbers.                                                    *)

npos == 0

(* string::find; characters are counted from 1.                            *)
Find(s, what, from) ==
    LET at == {i \in from .. Len(s) + 1 - Len(what) :
                  SubSeq(s, i, i + Len(what) - 1) = what} IN
    IF at = {} THEN npos ELSE Min(at)

From(s, i) == SubSeq(s, i, Len(s))

ValueOf(d) == (CHOOSE i \in DOMAIN Digits : Digits[i] = d) - 1

INT_MAX == 2147483647
OutOfRange == -1

LeadingDigits(s) ==
    SubSeq(s, 1, Max({k \in 0 .. Len(s) : \A i \in 1 .. k : s[i] \in Digit}))

(* The value stoi gives to a text that begins with digits.  No character   *)
(* is a blank or a sign, which stoi would take before them.                *)
Stoi(s) ==
    FoldLeft(LAMBDA v, d : IF v = OutOfRange \/ v > (INT_MAX - ValueOf(d)) \div 10
                           THEN OutOfRange
                           ELSE 10 * v + ValueOf(d),
             0, LeadingDigits(s))

(* to_string                                                               *)
Decimal[n \in Nat] ==
    IF n < 10 THEN <<Digits[n + 1]>> ELSE Append(Decimal[n \div 10], Digits[(n % 10) + 1])

-----------------------------------------------------------------------------
(* ParseUrl.                                                               *)

SchemeEnd(u) == Find(u, <<":", "/", "/">>, 1)
HostStart(u) == SchemeEnd(u) + 3

PathStartTooEarly(u) ==
    LET slash == Find(u, <<"/">>, SchemeEnd(u) + 2) IN
    IF slash = npos THEN Len(u) + 1 ELSE slash

PathStart(u) ==
    LET slash == Find(u, <<"/">>, HostStart(u)) IN
    IF slash = npos THEN Len(u) + 1 ELSE slash

HostPart(u) == SubSeq(u, HostStart(u), PathStart(u) - 1)
PortColon(u) == Find(HostPart(u), <<":">>, 1)
PortText(u) == From(HostPart(u), PortColon(u) + 1)

ThrowsForScheme(u) == SchemeEnd(u) = npos

(* ParseUrl throws by itself without a scheme; stoi throws without a digit *)
(* to begin with, and for a number that is no int.                         *)
Throws(u) ==
    \/ SchemeEnd(u) = npos
    \/ /\ PortColon(u) # npos
       /\ LeadingDigits(PortText(u)) = <<>> \/ Stoi(PortText(u)) = OutOfRange

ParseUrl(u) ==
    [scheme |-> SubSeq(u, 1, SchemeEnd(u) - 1),
     host |-> IF PortColon(u) = npos THEN HostPart(u)
              ELSE SubSeq(HostPart(u), 1, PortColon(u) - 1),
     port |-> IF PortColon(u) = npos THEN 0 ELSE Stoi(PortText(u)),
     path |-> IF From(u, PathStart(u)) = <<>> THEN <<"/">> ELSE From(u, PathStart(u))]

-----------------------------------------------------------------------------
(* CallAsync: where it connects, and the request line and Host header.     *)

UseHttps(u) == ParseUrl(u).scheme = <<"https">>
DefaultPort(u) == IF UseHttps(u) THEN 443 ELSE 80
PortUsed(u) == IF ParseUrl(u).port = 0 THEN DefaultPort(u) ELSE ParseUrl(u).port

HostHeaderOf80(u) ==
    IF PortUsed(u) = 80 \/ PortUsed(u) = 443 THEN ParseUrl(u).host
    ELSE ParseUrl(u).host \o <<":">> \o Decimal[PortUsed(u)]

HostHeader(u) ==
    IF PortUsed(u) = DefaultPort(u) THEN ParseUrl(u).host
    ELSE ParseUrl(u).host \o <<":">> \o Decimal[PortUsed(u)]

Request(u) ==
    [useHttps |-> UseHttps(u),
     host |-> ParseUrl(u).host,
     port |-> PortUsed(u),
     hostHeader |-> HostHeader(u),
     target |-> ParseUrl(u).path]

-----------------------------------------------------------------------------
(* The caller.                                                             *)

Written(scheme, authority, path) == <<scheme, ":", "/", "/">> \o authority \o path

Init ==
    /\ \E scheme \in Scheme, host \in Host, port \in Port, path \in Path :
          url = Written(scheme, host \o (IF port = <<>> THEN <<>> ELSE <<":">> \o port), path)
    /\ typos = 0

Mistype ==
    /\ typos < MaxTypos
    /\ typos' = typos + 1
    /\ \/ \E i \in 1 .. Len(url) + 1, ch \in Typo : url' = InsertAt(url, i, ch)
       \/ \E i \in 1 .. Len(url) : url' = RemoveAt(url, i)

Next == Mistype

Spec == Init /\ [][Next]_vars

-----------------------------------------------------------------------------
(* The documented form, "scheme://host[:port][/path]", by quantifiers.     *)

(* All ways to cut a URL into scheme, "://", host, port with its colon,    *)
(* and path.                                                               *)
Cuts(u) ==
    LET n == Len(u)
        ends == {e \in (0 .. n) \X (0 .. n) \X (0 .. n) :
                    /\ e[1] + 3 <= e[2] /\ e[2] <= e[3]
                    /\ SubSeq(u, e[1] + 1, e[1] + 3) = <<":", "/", "/">>} IN
    {[scheme |-> SubSeq(u, 1, e[1]),
      host |-> SubSeq(u, e[1] + 4, e[2]),
      port |-> SubSeq(u, e[2] + 1, e[3]),
      path |-> From(u, e[3] + 1)] : e \in ends}

Without(s, chars) == \A i \in DOMAIN s : s[i] \notin chars

(* The number without its leading zeros, and whether it is an int.         *)
Significant(digits) ==
    LET nonzero == {k \in DOMAIN digits : digits[k] # "0"} IN
    IF nonzero = {} THEN <<>> ELSE From(digits, Min(nonzero))

IsInt(digits) ==
    LET s == Significant(digits)
        limit == Decimal[INT_MAX] IN
    \/ Len(s) < Len(limit)
    \/ /\ Len(s) = Len(limit)
       /\ \A i \in DOMAIN s :
             (\A j \in 1 .. i - 1 : s[j] = limit[j]) => ValueOf(s[i]) <= ValueOf(limit[i])

(* A cut of the documented form; what follows the digits of the port and   *)
(* is no slash is tolerated.                                               *)
Tolerated(p) ==
    /\ SchemeEnd(p.scheme \o <<":", "/", "/">>) = Len(p.scheme) + 1
    /\ Without(p.host, {":", "/"})
    /\ Without(p.port, {"/"})
    /\ p.port # <<>> =>
          /\ Len(p.port) > 1 /\ p.port[1] = ":" /\ p.port[2] \in Digit
          /\ IsInt(LeadingDigits(Tail(p.port)))
    /\ p.path # <<>> => p.path[1] = "/"

Documented(p) == Tolerated(p) /\ (p.port # <<>> => Without(Tail(p.port), Word \cup {":"}))

-----------------------------------------------------------------------------
(* Properties.                                                             *)

(* A URL of the documented form is taken apart as the form says, in the    *)
(* only way there is.                                                      *)
DocumentedFormParsed ==
    \A p \in Cuts(url) : Documented(p) =>
        /\ ~Throws(url)
        /\ ParseUrl(url).scheme = p.scheme
        /\ ParseUrl(url).host = p.host
        /\ ParseUrl(url).path = IF p.path = <<>> THEN <<"/">> ELSE p.path
        /\ IF p.port = <<>> \/ Significant(Tail(p.port)) = <<>>
           THEN ParseUrl(url).port = 0
           ELSE Decimal[ParseUrl(url).port] = Significant(Tail(p.port))

(* CallAsync throws for a URL exactly when it is not of that form, apart   *)
(* from what follows the digits of the port, which is dropped in silence.  *)
ThrowsUnlessTolerated == Throws(url) <=> ~\E p \in Cuts(url) : Tolerated(p)

(* The request says where it was sent: the Host header and the target, put *)
(* together again with the scheme, make a URL for the same request, so     *)
(* that a port is left out exactly when the scheme implies it.             *)
HostHeaderNamesEndpoint ==
    ~Throws(url) =>
        LET scheme == ParseUrl(url).scheme
            again == scheme \o <<":", "/", "/">> \o HostHeader(url) \o ParseUrl(url).path IN
        ~Throws(again) /\ Request(again) = Request(url)

=============================================================================
