-------------------------- MODULE AddressValidators --------------------------
(* The validators of URLs, of IP addresses and of uploaded files of           *)
(* validators.py. A URL is the record of its parts, "" for a missing one: its *)
(* scheme, whether "://" follows, what comes then up to the next slash, and   *)
(* the rest. An address is the sequence of its octets in base Base.           *)
EXTENDS Calls

CONSTANTS Urls, UrlModes, Base, Addresses, IpRanges, Localhost, Private, Automatic,
          FileNames, Headers, SizesOfImages

IsV4(a) == a \in Seq(0..(Base - 1)) /\ Len(a) = 4
ASSUME AddressesAssumption ==
    /\ Base \in Nat \ {0}
    /\ \A a \in Addresses : IsV4(a) \/ Len(a) = 8
    /\ \A ranges \in IpRanges : \A r \in Range(ranges) : IsV4(r[1]) /\ IsV4(r[2])
ASSUME FilesAssumption ==
    /\ FileNames \subseteq Seq(UNION {Range(n) : n \in FileNames})
    /\ SizesOfImages \subseteq Int \X Int

NetlocOf(u) == IF u.slashes THEN u.first ELSE ""
RootPath(u) == ~u.slashes /\ u.first = "" /\ u.rest # ""
FromRoot(u) == u.scheme = "" /\ RootPath(u)

official_top_level_domains == {"abc.com", "abc.com:80"}
http_schemes == {"", "http", "https"}
all_url_schemes == {"", "http", "https", "ftp", "mailto"}

(* The text with a scheme in front: what was read as scheme and path of       *)
(* "abc.com:80" is then a host with its port.                                 *)
Prefixed(u, scheme) ==
    [u EXCEPT !.scheme = IF scheme = "" THEN "http" ELSE scheme, !.slashes = TRUE,
              !.first = IF u.scheme = "" THEN @ ELSE u.scheme \o ":" \o @]

(* "%" and two hexadecimal digits for a character beyond U+0FFF; those below  *)
(* have fewer than four digits and are cut to a broken escape.                *)
escape_unicode(rest) ==
    CASE rest = "/wide" -> "/%4e%86"
      [] rest = "/latin" -> "/%e9%"
      [] OTHER -> rest
unicode_to_ascii_authority(first) == IF first = "idn.com" THEN "abc.com" ELSE first
unicode_to_ascii_url(u, prepend_scheme) ==
    IF NetlocOf(u) = "" /\ NetlocOf(Prefixed(u, prepend_scheme)) = "" /\ ~FromRoot(u) THEN Err
    ELSE Ok([u EXCEPT !.first = unicode_to_ascii_authority(@), !.rest = escape_unicode(@)])

Broken(u) == u.rest = "/%e9%"
WithScheme(u, new, prepend) == IF prepend # "" THEN new ELSE u
NotBlank(u) == u.scheme # "" \/ u.slashes \/ u.first # "" \/ u.rest # ""

(* A scheme that is not allowed, or none and a colon in the path, is given    *)
(* another try as the host behind the scheme to prepend.                      *)
Allowed(u, allowed) == u.scheme \in allowed /\ ~(u.scheme = "" /\ u.rest = "/a:b")
Legal(u) == NotBlank(u) /\ ~Broken(u)
IS_GENERIC_URL(u, allowed, prepend) ==
    LET new == Prefixed(u, prepend)
    IN CASE Legal(u) /\ Allowed(u, allowed) -> Ok(u)
         [] Legal(u) /\ ~Allowed(u, allowed) /\ ~u.slashes /\ "" \in allowed /\ Allowed(new, allowed)
              -> Ok(WithScheme(u, new, prepend))
         [] OTHER -> Err

HostOk(first, tlds) == first \in {"1.2.3.4"} \cup tlds
IS_HTTP_URL(u, allowed, prepend, tlds) ==
    LET new == Prefixed(u, prepend)
        Legible(v) == ~IS_GENERIC_URL(v, allowed, prepend).error
    IN CASE Legible(u) /\ NetlocOf(u) # "" /\ HostOk(NetlocOf(u), tlds) -> Ok(u)
         [] Legible(u) /\ NetlocOf(u) = "" /\ (RootPath(u) \/ u.slashes \/ "" \notin allowed) -> Ok(u)
         [] /\ Legible(u) /\ NetlocOf(u) = "" /\ ~RootPath(u) /\ ~u.slashes /\ "" \in allowed
            /\ Legible(new) /\ HostOk(new.first, tlds) -> Ok(WithScheme(u, new, prepend))
         [] OTHER -> Err

IS_URL(u, m) ==
    LET ascii == unicode_to_ascii_url(u, m.prepend)
    IN CASE ascii.error -> Err
         [] ~ascii.error /\ m.mode = "generic" -> IS_GENERIC_URL(ascii.value, m.allowed, m.prepend)
         [] OTHER -> IS_HTTP_URL(ascii.value, m.allowed, m.prepend, official_top_level_domains)

-------------------------------------------------------------------------------
(* The number of an address of version 4.                                     *)
numbers(a) == Base * Base * Base * a[1] + Base * Base * a[2] + Base * a[3] + a[4]
InRange(n, r) == numbers(r[1]) <= n /\ n <= numbers(r[2])

(* An option asked for is {TRUE} or {FALSE}, one that is not is {}. *)
Agrees(asks, fact) == \A b \in asks : b = fact

IS_IPV4(a, f) ==
    LET n == numbers(a)
    IN IF /\ Len(a) = 4
          /\ \E r \in Range(f.ranges) : f.invert # InRange(n, r)
          /\ Agrees(f.is_localhost, a = Localhost)
          /\ Agrees(f.is_private, \E r \in Private : InRange(n, r))
          /\ Agrees(f.is_automatic, InRange(n, Automatic))
       THEN Ok(a) ELSE Err

(* An address of version 6 is known by what the ipaddress library tells of    *)
(* it; is_routeable replaces three of the options.                            *)
IS_IPV6(a, f) ==
    LET Asked(option) == IF f.is_routeable /\ option # "is_link_local" THEN {FALSE} ELSE f[option]
    IN IF /\ Len(a) = 8
          /\ f.subnets = {} \/ \E s \in f.subnets : IsPrefix(s, a)
          /\ Agrees(Asked("is_private"), a[1] = 1)
          /\ Agrees(Asked("is_link_local"), a[1] = 2)
          /\ Agrees(Asked("is_multicast"), a[1] = 3)
       THEN Ok(a) ELSE Err

IS_IPADDRESS(a, f) ==
    LET v4 == TRUE \in f.is_ipv4 \/ FALSE \in f.is_ipv6
        v6 == TRUE \in f.is_ipv6 \/ FALSE \in f.is_ipv4
    IN CASE v4 /\ Len(a) = 8 -> Err
         [] v6 /\ Len(a) = 4 -> Err
         [] OTHER -> IF Len(a) = 4 THEN IS_IPV4(a, f) ELSE IS_IPV6(a, f)

-------------------------------------------------------------------------------
(* A file name is split at its last dot or its first; no dot is one at the    *)
(* end. A part that is required must match.                                   *)
Split(name, lastdot) ==
    LET dots == {i \in DOMAIN name : name[i] = "."}
        dot == CASE dots = {} -> Len(name) + 1 [] dots # {} /\ lastdot -> Max(dots) [] OTHER -> Min(dots)
    IN <<SubSeq(name, 1, dot - 1), SubSeq(name, dot + 1, Len(name))>>
Cased(name, case) ==
    [i \in DOMAIN name |-> CASE case = 1 /\ name[i] = "A" -> "a" [] case = 2 /\ name[i] = "a" -> "A" [] OTHER -> name[i]]
IS_FILE(name, f) ==
    LET parts == Split(Cased(name, f.case), f.lastdot)
    IN IF (f.filename = {} \/ parts[1] \in f.filename) /\ (f.extension = {} \/ parts[2] \in f.extension)
       THEN Ok(name) ELSE Err
(* IS_UPLOAD_FILENAME matches a regular expression at the start of the part.  *)
IS_UPLOAD_FILENAME(name, f) ==
    LET parts == Split(Cased(name, f.case), f.lastdot)
        Begins(part, S) == S = {} \/ \E s \in S : IsPrefix(s, part)
    IN IF Begins(parts[1], f.filename) /\ Begins(parts[2], f.extension) THEN Ok(name) ELSE Err

(* The size an image's header tells when it is one of its extension's format, *)
(* and a size no image has otherwise.                                         *)
SizeOf(extension, file) == IF file.header = extension THEN file.size ELSE <<-1, -1>>
IS_IMAGE(file, f) ==
    LET extension == IF file.extension = "jpg" THEN "jpeg" ELSE file.extension
        size == SizeOf(extension, file)
    IN IF /\ extension \in f.extensions
          /\ \A i \in 1..2 : f.minsize[i] <= size[i] /\ size[i] <= f.maxsize[i]
          /\ f.aspectratio # <<-1, -1>> => size[2] * f.aspectratio[1] = f.aspectratio[2] * size[1]
       THEN Ok(file) ELSE Err

-------------------------------------------------------------------------------
ReadUrl == \E u \in Urls, m \in UrlModes : Ask("url", [u |-> u, m |-> m], IS_URL(u, m))
ReadAddress ==
    \E a \in Addresses, ranges \in IpRanges, invert, routeable \in BOOLEAN,
       four, six, private \in {{}, {TRUE}, {FALSE}} :
       LET f == [ranges |-> ranges, invert |-> invert, is_localhost |-> {}, is_automatic |-> {},
                 is_private |-> private, is_link_local |-> {}, is_multicast |-> {},
                 is_routeable |-> routeable, subnets |-> {}, is_ipv4 |-> four, is_ipv6 |-> six]
       IN Ask("ip", [a |-> a, f |-> f], IS_IPADDRESS(a, f))
NameFile ==
    \E n \in FileNames, lastdot \in BOOLEAN, case \in 0..2, upload \in BOOLEAN, e \in {{}, {<<"a">>}} :
       LET f == [filename |-> {}, extension |-> e, lastdot |-> lastdot, case |-> case]
       IN Ask("file", [n |-> n, f |-> f], IF upload THEN IS_UPLOAD_FILENAME(n, f) ELSE IS_FILE(n, f))
SendImage ==
    \E e \in Headers \cup {"jpg", "exe"}, h \in Headers, s \in SizesOfImages, r \in {<<-1, -1>>, <<2, 1>>} :
       LET file == [extension |-> e, header |-> h, size |-> s]
           f == [extensions |-> {"png", "jpeg"}, minsize |-> <<0, 0>>, maxsize |-> <<3, 3>>, aspectratio |-> r]
       IN Ask("image", [file |-> file, f |-> f], IS_IMAGE(file, f))

AskAddress == ReadUrl \/ ReadAddress \/ NameFile \/ SendImage

(* What IS_URL returns it accepts as it is, and where it prepends a scheme    *)
(* the result has an allowed scheme or its path begins at the root.           *)
UrlsSettle ==
    asked.of = "url" /\ ~answer.error =>
       /\ IS_URL(answer.value, asked.x.m) = answer
       /\ asked.x.m.mode = "http" /\ asked.x.m.prepend # "" /\ answer.value.scheme \notin asked.x.m.allowed \ {""}
             => RootPath(answer.value)

(* An IP address is refused for its family only where the other is asked for  *)
(* or its own is ruled out, whatever else is asked of it.                     *)
FamilyTells ==
    asked.of = "ip" =>
       LET f == asked.x.f
           mine == IF Len(asked.x.a) = 4 THEN f.is_ipv4 ELSE f.is_ipv6
           other == IF Len(asked.x.a) = 4 THEN f.is_ipv6 ELSE f.is_ipv4
           alone == IF Len(asked.x.a) = 4 THEN IS_IPV4(asked.x.a, f) ELSE IS_IPV6(asked.x.a, f)
       IN ~answer.error <=> ~alone.error /\ FALSE \notin mine /\ TRUE \notin other

(* Addresses of version 4 are in a range when they lie between its ends in    *)
(* the order of their octets from the first; the inverted check accepts what  *)
(* lies outside of some range.                                                *)
Before(a, b) == a = b \/ \E i \in 1..4 : a[i] < b[i] /\ \A j \in 1..(i - 1) : a[j] = b[j]
RangesTell ==
    asked.of = "ip" /\ Len(asked.x.a) = 4 /\ ~answer.error =>
       \E r \in Range(asked.x.f.ranges) :
          asked.x.f.invert # (Before(r[1], asked.x.a) /\ Before(asked.x.a, r[2]))

(* A name IS_FILE accepts IS_UPLOAD_FILENAME accepts with the same parts, and *)
(* a required extension is what follows the dot, in the case asked for.       *)
FilesHaveExtensions ==
    asked.of = "file" /\ ~answer.error /\ asked.x.f.extension # {} =>
       /\ "." \in Range(asked.x.n) /\ ~IS_UPLOAD_FILENAME(asked.x.n, asked.x.f).error
       /\ asked.x.f.case # 2

(* An image that is accepted is one of the format its extension names, of a   *)
(* size and shape that is allowed.                                            *)
ImagesAreWhatTheyClaim ==
    asked.of = "image" /\ ~answer.error =>
       LET file == asked.x.file
       IN /\ file.header = (IF file.extension = "jpg" THEN "jpeg" ELSE file.extension)
          /\ file.header \in asked.x.f.extensions
          /\ asked.x.f.aspectratio = <<2, 1>> => file.size[1] = 2 * file.size[2]
===============================================================================
