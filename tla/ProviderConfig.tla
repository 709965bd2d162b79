--------------------------- MODULE ProviderConfig ---------------------------
(***************************************************************************)
(* New (src/config.go): a raw configuration is normalized and validated,   *)
(* the client options are applied one after the other, and what the SDK's  *)
(* requests will use is the SDK's defaults under the options New chose.    *)
(*                                                                         *)
(* Durations are in seconds.  A base URL is what url.Parse and             *)
(* allowedBaseURLScheme tell apart, and the spaces and slashes after it.   *)
(* The empty text is "none".                                               *)
(***************************************************************************)
EXTENDS Integers, Sequences

CONSTANTS
  Configs,       \* raw configurations
  OptionLists,   \* sequences of client options
  Names,         \* names of HTTP clients
  TrimSpace      \* strings.TrimSpace, on the texts of configurations

VARIABLES
  stage,       \* where New is
  raw, given,  \* its arguments
  config,      \* config, as New works on it
  index,       \* the client option that is next
  httpClient,  \* construction.httpClient
  request      \* what a request of the client will use

vars == <<stage, raw, given, config, index, httpClient, request>>

defaultTimeout == 120
maximumTimeout == 1800
maximumRetries == 8

-----------------------------------------------------------------------------
Url == [parses : BOOLEAN, scheme : {"none", "https", "http", "other"},
        host : {"none", "port", "localhost", "loopback", "other"}, user : BOOLEAN, path : BOOLEAN]

NoUrl == [parses |-> TRUE, scheme |-> "none", host |-> "none", user |-> FALSE, path |-> FALSE]
OpenAI == [parses |-> TRUE, scheme |-> "https", host |-> "other", user |-> FALSE, path |-> TRUE]

BaseURL == [url : Url, after : Seq({"space", "slash"})]
Config(Text) == [APIKey : Text, BaseURL : BaseURL, Organization : Text, Project : Text,
                 Timeout : Int, MaxRetries : Int]

HTTPClient == [name : Names, timeout : Nat]
NoClient == [name |-> "none", timeout |-> 0]
ClientOption == [is : {"nil", "fails", "client"}, client : HTTPClient]

ASSUME ConfigAssumption ==
  /\ {"none", "default"} \subseteq Names
  /\ "none" \in DOMAIN TrimSpace /\ \A text \in DOMAIN TrimSpace : TrimSpace[text] \in DOMAIN TrimSpace
  /\ Configs \subseteq Config(DOMAIN TrimSpace)
  /\ OptionLists \subseteq Seq(ClientOption)

\* What is left of text when the occurrences of char at its end are cut off.
TrimRight(text, char) ==
  SubSeq(text, 1, CHOOSE n \in 0 .. Len(text) :
                    /\ n = 0 \/ text[n] # char
                    /\ \A i \in n + 1 .. Len(text) : text[i] = char)

normalizedBaseURL(value) ==
  LET trimmed == TrimRight(value.after, "space")
  IN  IF value.url = NoUrl /\ trimmed = << >> THEN [url |-> OpenAI, after |-> << >>]
      ELSE [value EXCEPT !.after = TrimRight(trimmed, "slash")]

\* Wrong: zero is no timeout.
timeoutAsGiven(value) == value
normalizedTimeout(value) == IF value = 0 THEN defaultTimeout ELSE value

normalize(c) ==
  [APIKey |-> TrimSpace[c.APIKey], BaseURL |-> normalizedBaseURL(c.BaseURL),
   Organization |-> TrimSpace[c.Organization], Project |-> TrimSpace[c.Project],
   Timeout |-> normalizedTimeout(c.Timeout), MaxRetries |-> c.MaxRetries]

allowedBaseURLScheme(url) ==
  url.scheme = "https" \/ (url.scheme = "http" /\ url.host \in {"localhost", "loopback"})

\* A space after the host is no part of it; after a path it is.
Parses(endpoint) ==
  /\ endpoint.url.parses
  /\ endpoint.url.path \/ \A i \in DOMAIN endpoint.after : i = 1 => endpoint.after[i] = "slash"

validate(c) ==
  /\ c.APIKey # "none"
  /\ Parses(c.BaseURL) /\ c.BaseURL.url.host # "none" /\ ~c.BaseURL.url.user
  /\ allowedBaseURLScheme(c.BaseURL.url)
  /\ c.Timeout > 0 /\ c.Timeout <= maximumTimeout
  /\ c.MaxRetries \in 0 .. maximumRetries

-----------------------------------------------------------------------------
\* What NewRequestConfig starts from; its HTTP client has no timeout.
SDKDefaults ==
  [APIKey |-> "none", BaseURL |-> [url |-> NoUrl, after |-> << >>], HTTPClient |-> NoClient,
   RequestTimeout |-> 0, MaxRetries |-> 2, Organization |-> "none", Project |-> "none"]

Request == [APIKey : DOMAIN TrimSpace, BaseURL : BaseURL, HTTPClient : HTTPClient,
            RequestTimeout : 0 .. maximumTimeout, MaxRetries : 0 .. maximumRetries,
            Organization : DOMAIN TrimSpace, Project : DOMAIN TrimSpace]

\* Wrong: no retries is taken for no choice.
requestOptionsIfSet(c, client) ==
  [APIKey |-> c.APIKey, BaseURL |-> c.BaseURL, HTTPClient |-> client, RequestTimeout |-> c.Timeout,
   MaxRetries |-> IF c.MaxRetries # 0 THEN c.MaxRetries ELSE SDKDefaults.MaxRetries,
   Organization |-> IF c.Organization # "none" THEN c.Organization ELSE SDKDefaults.Organization,
   Project |-> IF c.Project # "none" THEN c.Project ELSE SDKDefaults.Project]

\* Wrong: the timeout is left to the HTTP client.
requestOptionsUntimed(c, client) ==
  [APIKey |-> c.APIKey, BaseURL |-> c.BaseURL, HTTPClient |-> client, MaxRetries |-> c.MaxRetries,
   RequestTimeout |-> SDKDefaults.RequestTimeout,
   Organization |-> IF c.Organization # "none" THEN c.Organization ELSE SDKDefaults.Organization,
   Project |-> IF c.Project # "none" THEN c.Project ELSE SDKDefaults.Project]

requestOptions(c, client) ==
  [APIKey |-> c.APIKey, BaseURL |-> c.BaseURL, HTTPClient |-> client, RequestTimeout |-> c.Timeout,
   MaxRetries |-> c.MaxRetries,
   Organization |-> IF c.Organization # "none" THEN c.Organization ELSE SDKDefaults.Organization,
   Project |-> IF c.Project # "none" THEN c.Project ELSE SDKDefaults.Project]

\* Only a configuration within the limits reaches the SDK.
TypeOK ==
  /\ stage \in {"called", "validate", "options", "built", "refused"}
  /\ raw \in Configs /\ given \in OptionLists
  /\ config \in Config(DOMAIN TrimSpace)
  /\ index \in 1 .. Len(given) + 1
  /\ httpClient \in HTTPClient
  /\ request \in Request

Init ==
  /\ stage = "called"
  /\ raw \in Configs /\ given \in OptionLists
  /\ config = raw /\ index = 1
  /\ httpClient = NoClient /\ request = SDKDefaults

Normalize ==
  /\ stage = "called"
  /\ config' = normalize(config)
  /\ stage' = "validate"
  /\ UNCHANGED <<raw, given, index, httpClient, request>>

\* The default HTTP client has the configured timeout.
Validate ==
  /\ stage = "validate"
  /\ \/ /\ validate(config)
        /\ httpClient' = [name |-> "default", timeout |-> config.Timeout]
        /\ stage' = "options"
     \/ ~validate(config) /\ stage' = "refused" /\ UNCHANGED httpClient
  /\ UNCHANGED <<raw, given, config, index, request>>

\* Wrong: an option that fails is skipped.
ApplyAndGoOn ==
  /\ stage = "options" /\ index <= Len(given)
  /\ httpClient' = IF given[index].is = "client" THEN given[index].client ELSE httpClient
  /\ index' = index + 1
  /\ UNCHANGED <<stage, raw, given, config, request>>

\* A nil option, an option that fails, or WithHTTPClient.
Apply ==
  /\ stage = "options" /\ index <= Len(given)
  /\ \/ /\ given[index].is = "client"
        /\ httpClient' = given[index].client /\ UNCHANGED stage
     \/ given[index].is # "client" /\ stage' = "refused" /\ UNCHANGED httpClient
  /\ index' = index + 1
  /\ UNCHANGED <<raw, given, config, request>>

Build ==
  /\ stage = "options" /\ index > Len(given)
  /\ request' = requestOptions(config, httpClient)
  /\ stage' = "built"
  /\ UNCHANGED <<raw, given, config, index, httpClient>>

Next == Normalize \/ Validate \/ Apply \/ Build

Spec == Init /\ [][Next]_vars

-----------------------------------------------------------------------------
\* README.md:19-28 of a configuration as the host wrote it: a key, an absolute
\* HTTPS URL or HTTP on loopback, no user information, a timeout of zero (the
\* default) up to thirty minutes and up to eight retries.
Acceptable ==
  LET url   == raw.BaseURL.url
      after == raw.BaseURL.after
      cut   == \E i, j \in DOMAIN after : i < j /\ after[i] = "space" /\ after[j] = "slash"
      blank == url = NoUrl /\ \A i \in DOMAIN after : after[i] = "space"
  IN  /\ TrimSpace[raw.APIKey] # "none"
      /\ blank \/ /\ url.parses /\ url.host # "none" /\ ~url.user
                  /\ url.scheme = "https" \/ (url.scheme = "http" /\ url.host \in {"localhost", "loopback"})
                  /\ url.path \/ ~cut \/ \A i \in DOMAIN after : i = 1 => after[i] = "slash"
      /\ raw.Timeout >= 0 /\ raw.Timeout <= maximumTimeout
      /\ raw.MaxRetries >= 0 /\ raw.MaxRetries <= maximumRetries

\* New returns a client exactly for an acceptable configuration and options of
\* which none is nil or fails, however both are spelled and ordered.
AcceptsExactly ==
  stage \in {"built", "refused"} =>
    (stage = "built" <=> Acceptable /\ \A i \in DOMAIN given : given[i].is = "client")

\* A client's requests follow its configuration, and never a default of the SDK:
\* no retries means none, and the last HTTP client given is the one used.
RequestFollowsConfig ==
  stage = "built" =>
    /\ request.MaxRetries = raw.MaxRetries
    /\ request.APIKey = TrimSpace[raw.APIKey]
    /\ request.Organization = TrimSpace[raw.Organization] /\ request.Project = TrimSpace[raw.Project]
    /\ IF given = << >> THEN request.HTTPClient.name = "default"
       ELSE request.HTTPClient = given[Len(given)].client

\* security-review.md:17: every attempt of a client is bounded by at most thirty
\* minutes, also with an HTTP client that has no timeout.
AttemptsAreBounded ==
  stage = "built" =>
    \E bound \in {request.RequestTimeout, request.HTTPClient.timeout} : bound > 0 /\ bound <= maximumTimeout

=============================================================================
