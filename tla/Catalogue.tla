----------------------------- MODULE Catalogue -----------------------------
(***************************************************************************)
(* The catalogue this repository ships: every setting of every namespace,  *)
(* with the fields that decide something.  Entries are written with the    *)
(* attributes that differ from what SettingDef gives by default; prose,    *)
(* origin and labels are left out.                                         *)
(***************************************************************************)
EXTENDS Policy

CONSTANT Matching(_)   \* the texts a pattern matches whole

True == [kind |-> "bool", is |-> TRUE]
False == [kind |-> "bool", is |-> FALSE]

Setting(key, type, default) ==
    [namespace |-> COMMON, key |-> key, value_type |-> type, default |-> default,
     minimum |-> None, maximum |-> None, choices |-> {}, max_chars |-> None, pattern |-> None,
     max_items |-> None, max_item_chars |-> None, nullable |-> default = Null, timezone |-> FALSE,
     operator_clampable |-> FALSE, owner_writable_only |-> FALSE, scope |-> "account",
     agent_writable |-> "never", on_unavailable |-> "refuse", conservative_values |-> {},
     retired |-> FALSE]

Flag(key, default) == Setting(key, "bool", IF default THEN True ELSE False)
Number(key, default, low, high) ==
    [Setting(key, "int", default) EXCEPT !.minimum = low, !.maximum = high,
                                         !.operator_clampable = TRUE]
Choice(key, default, choices) == [Setting(key, "enum", Text(default)) EXCEPT !.choices = choices]
Line(key, default, max_chars) == [Setting(key, "str", default) EXCEPT !.max_chars = max_chars]
Lines(key, max_items, max_item_chars) ==
    [Setting(key, "str_list", TextList(<<>>)) EXCEPT !.max_items = max_items,
                                                     !.max_item_chars = max_item_chars]

FallsTo(e, values) == [e EXCEPT !.on_unavailable = "use_default", !.conservative_values = values]
Falls(e) == FallsTo(e, {e.default})
PerProfile(e) == [e EXCEPT !.scope = "profile"]
WithApproval(e) == [e EXCEPT !.agent_writable = "with_approval"]
Freely(e) == [e EXCEPT !.agent_writable = "freely"]
OwnerOnly(e) == [e EXCEPT !.owner_writable_only = TRUE]
Unclampable(e) == [e EXCEPT !.operator_clampable = FALSE]
Matched(e, pattern) == [e EXCEPT !.pattern = Matching(pattern)]
Zoned(e) == [e EXCEPT !.timezone = TRUE]

FeedFlag(key, default) ==
    PerProfile(WithApproval(
        FallsTo(Flag(key, default), IF default THEN {True, False} ELSE {False})))
-----------------------------------------------------------------------------
CommonSettings ==
    <<Falls(Zoned(Line("timezone", Text("UTC"), 64))),
      Falls(Matched(Line("locale", Null, 35),
          "^[a-z]{2,3}(-[A-Z][a-z]{3})?(-[A-Z]{2}|-[0-9]{3})?$")),
      Falls(Choice("units", "metric", {"metric", "imperial"})),
      Falls(Choice("time_format", "24h", {"24h", "12h"})),
      Matched(Line("default_profile", Text("personal"), 64),
          "^[a-z0-9](?:[a-z0-9._-]*[a-z0-9])?$"),
      Falls(Flag("redact_values_in_logs", TRUE)),
      Falls(Number("job_retention_hours", Whole(1), 0, 168)),
      Falls(Matched(Line("currency", Null, 3), "^[A-Z]{3}$"))>>

KeyringSettings ==
    <<Falls(Number("session_ttl_days", Whole(14), 1, 90)),
      Falls(Number("max_sessions", Whole(20), 1, 20)),
      Falls(Flag("email_notifications", TRUE)),
      FallsTo(Flag("notify_on_new_session", FALSE), {False, True}),
      OwnerOnly(Flag("require_reauth_for_credential_changes", FALSE)),
      Falls(Number("session_absolute_ttl_days", Whole(90), 1, 365)),
      FallsTo(Flag("notify_on_credential_change", FALSE), {False, True})>>

UserSettings ==
    <<FallsTo(Choice("erasure_mode", "grace", {"grace", "immediate", "tombstone"}),
          {Text("grace"), Text("tombstone")}),
      Falls(Number("grace_days", Whole(30), 0, 365)),
      Falls(Flag("log_values", FALSE)),
      Falls(Matched(Line("default_write_scope", Null, 32), "^[a-z][a-z0-9_]*$")),
      Falls(Number("max_pinned", Whole(40), 1, 40)),
      Falls(Number("search_default_limit", Whole(20), 1, 100))>>

PersonaSettings ==
    <<Falls(Matched(Line("default_persona", Null, 64), "^[a-z0-9](?:[a-z0-9._-]*[a-z0-9])?$")),
      PerProfile(Falls(Number("recall_default_limit", Whole(20), 1, 100))),
      Falls(Flag("log_values", FALSE)),
      FallsTo(Choice("erasure_mode", "tombstone", {"grace", "immediate", "tombstone"}),
          {Text("tombstone"), Text("grace")}),
      Falls(Number("grace_days", Whole(30), 0, 365)),
      Falls(Number("max_pinned_fields", Whole(20), 1, 20)),
      Falls(Number("max_pinned_notes", Whole(20), 1, 20))>>

MemorySettings ==
    <<Falls(Number("retrieval_limit", Whole(10), 0, 100)),
      Choice("retrieval_trust_floor", "inferred", {"stated", "observed", "inferred"}),
      Number("write_importance_floor", Whole(1), 1, 10),
      Falls(Number("recency_half_life_days", Whole(30), 1, 3650)),
      Choice("consolidation", "on_session_end", {"never", "on_session_end", "continuous"}),
      Number("erasure_grace_days", Whole(30), 0, 365),
      Falls(Number("block_char_limit", Whole(16000), 256, 24000))>>

LucyModel ==
    <<PerProfile(Falls(Matched(Line("model", Text("anthropic:claude-opus-5"), 128),
          "^[a-z0-9][a-z0-9-]*:[A-Za-z0-9][A-Za-z0-9._-]*$"))),
      PerProfile(Falls(Matched(Line("fallback_model", Null, 128),
          "^[a-z0-9][a-z0-9-]*:[A-Za-z0-9][A-Za-z0-9._-]*$"))),
      PerProfile(FallsTo(Choice("thinking", "medium", {"off", "minimal", "low", "medium",
          "high"}), {Text("off"), Text("minimal"), Text("low"), Text("medium")})),
      Falls(Number("max_thinking_tokens", Whole(0), 0, 200000)),
      PerProfile(Freely(Falls(Unclampable(Number("temperature", Whole(100), 0, 200))))),
      PerProfile(Falls(Choice("response_style", "natural", {"brief", "natural", "thorough"}))),
      PerProfile(Falls(Choice("formatting", "auto", {"auto", "plain", "markdown"}))),
      PerProfile(Falls(Flag("emoji", TRUE))),
      PerProfile(Flag("vision_enabled", TRUE))>>

LucyManner ==
    <<PerProfile(WithApproval(FallsTo(Choice("ambiguity", "assume_and_say", {"assume_and_say",
          "ask_first"}), {Text("assume_and_say"), Text("ask_first")}))),
      PerProfile(WithApproval(FallsTo(Choice("opinions", "when_they_matter",
          {"when_they_matter", "only_when_asked"}),
          {Text("when_they_matter"), Text("only_when_asked")}))),
      PerProfile(WithApproval(Falls(Flag("announce_memory_writes", TRUE))))>>

LucyContext ==
    <<Falls(Number("max_context_tokens", Whole(200000), 32000, 1000000)),
      PerProfile(Falls(Number("reserve_percent", Whole(13), 5, 40))),
      PerProfile(Falls(Number("warn_at_percent", Whole(60), 10, 95))),
      PerProfile(Falls(Number("compaction_trigger_percent", Whole(72), 50, 90))),
      PerProfile(Falls(Number("history_turns_kept", Whole(4), 0, 100))),
      PerProfile(Falls(Number("tool_results_kept", Whole(3), 0, 50))),
      Falls(Number("max_tool_result_tokens", Whole(25000), 1000, 100000)),
      Falls(Number("render_read_tokens", Whole(2000), 100, 20000)),
      Falls(Number("render_preview_tokens", Whole(400), 50, 5000)),
      Falls(Number("render_total_tokens", Whole(8000), 500, 100000)),
      PerProfile(WithApproval(Falls(Lines("preferred_capabilities", 16, 48)))),
      PerProfile(Falls(Lines("prompt_sections_disabled", 6, 16)))>>

LucyDecisions ==
    <<Falls(Flag("decisions", FALSE)),
      Falls(Flag("decision_shadow_mode", TRUE)),
      Falls(Flag("decision_capabilities", TRUE)),
      Falls(Flag("decision_memory", TRUE)),
      Falls(Flag("decision_recovery", FALSE)),
      Falls(Flag("decision_claims", TRUE)),
      FallsTo(Flag("decision_keeping", TRUE), {True, False}),
      Falls(Number("decision_timeout_ms", Whole(1000), 50, 5000)),
      Falls(Number("decision_max_per_turn", Whole(8), 1, 32))>>

LucyLimits ==
    <<Falls(Number("max_output_tokens_per_turn", Whole(8000), 256, 128000)),
      Falls(Number("max_tool_calls_per_turn", Whole(60), 1, 500)),
      Falls(Number("max_turn_seconds", Whole(0), 0, 86400)),
      Falls(Number("max_llm_turns", Whole(12), 1, 100)),
      Falls(Number("max_subagent_turns", Whole(8), 1, 50)),
      PerProfile(Falls(Number("max_steps_per_plan", Whole(20), 1, 100))),
      PerProfile(FallsTo(Number("max_parallel_steps", Whole(4), 1, 16), {Whole(1), Whole(4)})),
      PerProfile(Falls(Number("step_timeout_seconds", Whole(10), 1, 600))),
      PerProfile(Falls(Number("plan_timeout_seconds", Whole(60), 1, 3600))),
      Falls(Number("session_token_budget", Whole(0), 0, 100000000)),
      PerProfile(WithApproval(FallsTo(Choice("workspace_edit_matching", "fuzzy", {"exact",
          "whitespace", "fuzzy"}), {Text("fuzzy"), Text("whitespace"), Text("exact")})))>>

LucyHelpers ==
    <<FallsTo(Number("agent_max_depth", Whole(3), 1, 5), {Whole(1), Whole(3)}),
      FallsTo(Number("agent_max_concurrent", Whole(5), 1, 20), {Whole(1), Whole(5)}),
      Falls(Number("agent_result_token_cap", Whole(2000), 200, 20000)),
      Falls(Number("agent_wall_clock_seconds", Whole(600), 10, 7200)),
      Falls(Number("agent_message_max_chars", Whole(4000), 100, 32000)),
      Falls(Number("agent_message_burst", Whole(5), 1, 50)),
      PerProfile(WithApproval(Falls(Matched(Line("helper_model", Null, 128),
          "^[a-z0-9][a-z0-9-]*:[A-Za-z0-9][A-Za-z0-9._-]*$"))))>>

LucyPermissions ==
    <<PerProfile(FallsTo(Choice("permission_mode", "ask", {"ask", "accept_edits", "plan",
          "auto"}), {Text("ask"), Text("plan")})),
      Choice("approval_policy", "destructive_always_asks", {"destructive_always_asks",
          "spend_and_destructive_ask"}),
      PerProfile(Falls(Flag("confirm_outward_actions", TRUE))),
      Falls(Lines("enabled_capabilities", 32, 48)),
      Lines("disabled_capabilities", 32, 48),
      PerProfile(Falls(Flag("claude_code_delegation", FALSE))),
      PerProfile(Falls(Lines("claude_code_directories", 16, 256))),
      PerProfile(FallsTo(Choice("claude_code_run_level", "edits", {"plan", "ask", "edits",
          "full"}), {Text("plan"), Text("ask"), Text("edits")}))>>

LucyUnattended ==
    <<PerProfile(Flag("act_unattended", TRUE)),
      PerProfile(WithApproval(Falls(Matched(Line("quiet_hours", Text(""), 11),
          "^$|^([01]\\d|2[0-3]):[0-5]\\d-([01]\\d|2[0-3]):[0-5]\\d$")))),
      PerProfile(WithApproval(FallsTo(Flag("wake_by_default", TRUE), {True, False}))),
      PerProfile(WithApproval(Falls(Number("watch_default_minutes", Whole(5), 1, 60))))>>

LucyRecall ==
    <<FallsTo(Choice("memory_write_policy", "ask_first", {"never", "ask_first", "automatic"}),
          {Text("never"), Text("ask_first")}),
      Falls(Number("memory_retrieval_limit", Whole(12), 0, 100)),
      PerProfile(Falls(Flag("incognito", FALSE))),
      Falls(Flag("log_message_content", FALSE))>>

LucySessions ==
    <<PerProfile(Falls(Choice("input_policy", "enqueue", {"reject", "enqueue", "interrupt",
          "rollback"}))),
      PerProfile(WithApproval(FallsTo(Flag("auto_title", TRUE), {True, False}))),
      PerProfile(FallsTo(Number("session_idle_archive_days", Whole(30), 0, 3650), {Whole(0),
          Whole(30)})),
      PerProfile(Falls(Number("workspace_retention_hours", Whole(24), 1, 720))),
      PerProfile(Falls(Flag("stream_thinking", FALSE))),
      PerProfile(Freely(Falls(Flag("notify_on_long_turn", TRUE)))),
      PerProfile(Freely(Falls(Unclampable(Number("long_turn_seconds", Whole(60), 5, 3600))))),
      Falls(Number("delete_archived_sessions_after_days", Whole(0), 0, 3650))>>

LucyReliability ==
    <<Falls(Number("retry_attempts", Whole(2), 0, 10)),
      Falls(Number("retry_max_seconds", Whole(30), 1, 600)),
      Falls(Number("downstream_timeout_seconds", Whole(10), 1, 300))>>

LucyFeeds ==
    <<PerProfile(WithApproval(FallsTo(Flag("prompt_feeds_enabled", TRUE), {True, False}))),
      WithApproval(Falls(Flag("prompt_hide_personal_feeds", TRUE))),
      Falls(Flag("prompt_allow_unknown_feed_fields", FALSE)),
      FeedFlag("feeds_account", TRUE),
      FeedFlag("feeds_persona", TRUE),
      FeedFlag("feeds_music", TRUE),
      FeedFlag("feeds_workspace", TRUE),
      FeedFlag("feeds_research", TRUE),
      FeedFlag("feeds_account_pinned", TRUE),
      FeedFlag("feeds_persona_identity", TRUE),
      FeedFlag("feeds_persona_notes", TRUE),
      FeedFlag("feeds_music_now_playing", TRUE),
      FeedFlag("feeds_music_device", TRUE),
      FeedFlag("feeds_music_shuffled", TRUE),
      FeedFlag("feeds_music_repeat", TRUE),
      FeedFlag("feeds_music_queue_head", FALSE),
      FeedFlag("feeds_workspace_cwd", TRUE),
      FeedFlag("feeds_workspace_shell", TRUE),
      FeedFlag("feeds_workspace_pid", TRUE),
      FeedFlag("feeds_workspace_shells_running", TRUE),
      FeedFlag("feeds_workspace_sandbox", TRUE),
      FeedFlag("feeds_workspace_git_branch", TRUE),
      FeedFlag("feeds_workspace_last_command", FALSE),
      FeedFlag("feeds_research_backend", FALSE)>>

SpotifySettings ==
    <<PerProfile(Falls(Matched(Line("default_market", Null, 2), "^[A-Z]{2}$"))),
      PerProfile(Falls(Number("max_batch_size", Whole(50), 1, 200))),
      PerProfile(Falls(Number("confirm_timeout_seconds", Whole(15), 5, 300))),
      Falls(Number("job_retention_hours", Whole(1), 0, 24)),
      PerProfile(Falls(Matched(Line("default_device", Null, 128),
          "^[A-Za-z0-9][A-Za-z0-9._:-]{0,127}$"))),
      PerProfile(Falls(Flag("shuffle_on_play", FALSE))),
      PerProfile(Falls(Choice("repeat_mode", "off", {"off", "track", "context"}))),
      PerProfile(Flag("allow_explicit", TRUE))>>

SearchSettings ==
    <<PerProfile(Falls(Matched(Line("default_model", Null, 128),
          "^[a-z0-9][a-z0-9_-]*:[A-Za-z0-9][A-Za-z0-9._:-]*$"))),
      PerProfile(Falls(Choice("search_backend", "google", {"google", "searxng"}))),
      Lines("disabled_providers", 60, 64),
      Falls(Number("max_content_chars", Whole(40000), 1000, 200000)),
      PerProfile(FallsTo(Choice("safe_search", "moderate", {"off", "moderate", "strict"}),
          {Text("moderate"), Text("strict")})),
      OwnerOnly(Falls(Flag("store_query_history", FALSE))),
      PerProfile(Falls(Number("default_result_count", Whole(8), 1, 20))),
      PerProfile(Falls(Number("recency_days", Null, 1, 365))),
      PerProfile(Freely(Falls(Matched(Line("language", Text("en"), 8),
          "^[a-z]{2,3}(?:-[a-z0-9]{2,4})?$")))),
      PerProfile(Freely(Falls(Matched(Line("region", Text("us"), 8), "^[a-z]{2}$")))),
      WithApproval(Falls(Lines("blocked_domains", 100, 253))),
      PerProfile(Freely(Falls(Number("read_top_pages", Whole(0), 0, 10)))),
      PerProfile(Freely(FallsTo(Choice("summary_length", "standard", {"brief", "standard",
          "detailed"}), {Text("standard"), Text("brief"), Text("detailed")}))),
      PerProfile(Falls(Line("research_notes", Text(""), 2000)))>>

EnvironmentsSettings ==
    <<PerProfile(Falls(Number("idle_environment_hours", Whole(24), 1, 168))),
      PerProfile(Falls(Number("idle_shell_minutes", Whole(60), 1, 1440))),
      Falls(Number("max_environments_per_profile", Whole(5), 1, 5)),
      PerProfile(Falls(Choice("default_shell", "bash", {"bash", "sh"}))),
      PerProfile(Falls(Flag("persist_history", FALSE))),
      PerProfile(Falls(Number("command_timeout_seconds", Whole(60), 5, 3600))),
      Falls(Number("max_output_bytes", Whole(1048576), 4096, 8388608))>>

GithubSettings ==
    <<PerProfile(Falls(Matched(Line("default_owner", Null, 39),
          "^[A-Za-z0-9](?:[A-Za-z0-9-]{0,38})$"))),
      PerProfile(Falls(Choice("default_visibility", "private", {"private", "public",
          "internal"}))),
      PerProfile(WithApproval(Choice("merge_method", "squash", {"merge", "squash", "rebase"}))),
      PerProfile(WithApproval(FallsTo(Flag("draft_pull_requests", FALSE), {False, True}))),
      PerProfile(WithApproval(Falls(Flag("delete_branch_after_merge", FALSE)))),
      PerProfile(WithApproval(Falls(Number("watch_default_hours", Whole(1), 1, 168))))>>

LucySettings ==
    LucyModel \o LucyManner \o LucyContext \o LucyDecisions \o LucyLimits \o LucyHelpers
    \o LucyPermissions \o LucyUnattended \o LucyRecall \o LucySessions \o LucyReliability
    \o LucyFeeds
-----------------------------------------------------------------------------
In(namespace, settings) ==
    [namespace |-> namespace,
     settings |-> [i \in DOMAIN settings |-> [settings[i] EXCEPT !.namespace = namespace]]]

(* _MODULES, in the order of the documentation.                            *)
Shipped ==
    <<In("common", CommonSettings), In("keyring", KeyringSettings), In("user", UserSettings),
      In("persona", PersonaSettings), In("memory", MemorySettings), In("lucy", LucySettings),
      In("spotify", SpotifySettings), In("search", SearchSettings),
      In("environments", EnvironmentsSettings), In("github", GithubSettings)>>
=============================================================================
