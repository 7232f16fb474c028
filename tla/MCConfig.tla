------------------------------ MODULE MCConfig ------------------------------
(* Config for TLC: files with every kind of pair the handlers tell apart.   *)
EXTENDS Config

MCBasename ==
    [path \in {"/a/icon", "/b/icon", "/a/book"} |-> IF path = "/a/book" THEN "book" ELSE "icon"]

Number(value) == [value |-> value, minus |-> FALSE, trailing |-> FALSE]
MCNumeral ==
    [text \in {"0", "1", "500", "32768", "99999", "-1", "500ms"} |->
        CASE text = "0"     -> Number(0)
          [] text = "1"     -> Number(1)
          [] text = "500"   -> Number(500)
          [] text = "32768" -> Number(32768)
          [] text = "99999" -> Number(99999)
          [] text = "-1"    -> [Number(1) EXCEPT !.minus = TRUE]
          [] text = "500ms" -> [Number(500) EXCEPT !.trailing = TRUE]]

\* A watch on a file, with more pairs.
On(path, action, more) == <<<<"filename", path>>, <<"action", action>>>> \o more

IconTexts ==
    { <<>>,
      On("/a/icon", "run", <<>>),
      On("/a/icon", "go", <<<<"label", "KOReader">>, <<"block_spawns", "yes">>>>),
      On("/a/icon", "", <<<<"label", "icon">>>>),
      On("/a/icon", "run", <<<<"label", "icon">>, <<"hidden", "maybe">>>>) }

OtherTexts ==
    { On("/a/icon", "run", <<<<"skip_db_checks", "true">>>>),
      On("/b/icon", "run", <<<<"hidden", "1">>, <<"reboot_on_exit", "1">>, <<"hidden", "off">>>>),
      On("/a/book", "run", <<<<"filename", "/a/books">>>>),
      On("/a/book", "run", <<<<"do_db_update", "on">>, <<"db_title", "T">>>>),
      On("/a/book", "run", <<<<"do_db_update", "on">>, <<"db_title", "A title.">>,
                             <<"db_author", "A">>, <<"db_comment", "C">>>>),
      On("/a/book", "run", <<<<"do_db_update", "no">>, <<"db_title", "U">>>>) }

FirstTexts == <<<<>>, On("/a/icon", "run", <<<<"skip_db_checks", "true">>>>), <<>>>>

LastTexts == {<<>>, On("/a/icon", "go", <<<<"block_spawns", "0">>>>)}

MCTexts == <<IconTexts, OtherTexts, LastTexts>>

Timeout(value) == <<<<"db_timeout", value>>>>
MainTexts ==
    {Timeout(value) : value \in {"0", "500", "32768", "99999", "-1", "500ms", "soon", ""}}
    \cup { Timeout("500") \o <<<<"use_syslog", "1">>, <<"with_notifications", "yes">>>>,
           <<<<"use_syslog", "maybe">>>>,
           <<<<"filename", "/a/icon">>>> }
UserTexts ==
    { <<>>, Timeout("500"), Timeout("-1"),
      <<<<"with_notifications", "no">>, <<"with_storage_notifications", "on">>>> }

\* What the daemon's files say and what the watches' files say is varied in turn.
MCStarts ==
    [main : MainTexts, user : UserTexts, watches : {FirstTexts}, edited : {FALSE}]
    \cup
    [main : {Timeout("500")}, user : {<<>>}, watches : IconTexts \X OtherTexts \X LastTexts, edited : {TRUE}]
=============================================================================
