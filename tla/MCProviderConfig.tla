-------------------------- MODULE MCProviderConfig --------------------------
(***************************************************************************)
(* A small instance of ProviderConfig: the boundaries of every field, all  *)
(* pairs of URL and spelling, and up to two client options.                *)
(***************************************************************************)
EXTENDS ProviderConfig

MCTrimSpace ==
  [text \in {"none", "  ", "key", " key ", "other", "  other"} |->
     CASE text = "  " -> "none" [] text = " key " -> "key" [] text = "  other" -> "other" [] OTHER -> text]

URL(scheme, host, user, path) ==
  [parses |-> TRUE, scheme |-> scheme, host |-> host, user |-> user, path |-> path]

MCUrls ==
  { NoUrl, OpenAI,
    URL("https", "other", FALSE, FALSE), URL("https", "other", TRUE, TRUE), URL("https", "port", FALSE, TRUE),
    URL("http", "localhost", FALSE, TRUE), URL("http", "loopback", FALSE, FALSE), URL("http", "other", FALSE, TRUE),
    URL("http", "port", FALSE, FALSE), URL("other", "other", FALSE, TRUE), URL("none", "none", FALSE, TRUE),
    [OpenAI EXCEPT !.parses = FALSE] }

MCAfter == { << >>, <<"slash">>, <<"space">>, <<"slash", "slash", "space">>, <<"space", "slash">>,
             <<"slash", "space", "slash">> }

Raw(key, url, after, timeout, retries) ==
  [APIKey |-> key, BaseURL |-> [url |-> url, after |-> after], Organization |-> "  ", Project |-> "  other",
   Timeout |-> timeout, MaxRetries |-> retries]

MCConfigs ==
  {Raw("key", url, after, 1, 1) : url \in MCUrls, after \in MCAfter}
    \cup {Raw(key, OpenAI, << >>, timeout, retries) :
            key \in {"none", "  ", " key "}, timeout \in {-1, 0, 1, 1800, 1801}, retries \in {-1, 0, 8, 9}}

MCNames == {"none", "default", "untimed", "slow"}

MCOptions ==
  { [is |-> "nil", client |-> NoClient], [is |-> "fails", client |-> NoClient],
    [is |-> "client", client |-> [name |-> "untimed", timeout |-> 0]],
    [is |-> "client", client |-> [name |-> "slow", timeout |-> 3600]] }

MCOptionLists == { << >> } \cup {<<a>> : a \in MCOptions} \cup {<<a, b>> : a, b \in MCOptions}

=============================================================================
