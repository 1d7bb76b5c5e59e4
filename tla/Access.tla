------------------------------- MODULE Access -------------------------------
(***************************************************************************)
(* Which handler answers a request, and whether it serves the one who      *)
(* asks: the routes of app/api/v1/endpoints/ in the order in which         *)
(* app/api/v1/router.py includes them, the dependencies that guard them    *)
(* (core/dependencies.py), the permissions that the start of the program   *)
(* gives to the roles (core/permissions.py, core/bootstrap.py), and the    *)
(* accounts, which other requests make, deactivate and purge meanwhile     *)
(* (services/user_service.py).  What else the handlers do is in the other  *)
(* modules; organizations, which confine administrators, are left out.     *)
(***************************************************************************)
EXTENDS Naturals, FiniteSets, FiniteSetsExt, Sequences, SequencesExt

CONSTANTS
  People,      \* users, by what they are
  RoleOf,      \* the role of a user, bound to the account when it is made
  None

\* What the constants are.
AccessAssumption ==
  /\ RoleOf \in [People -> {"SUPER_ADMIN", "ADMIN", "VOLUNTEER"}]
  /\ None \notin People

-----------------------------------------------------------------------------
(***************************************************************************)
(* Routes.  A path is the sequence of its segments, "*" for a parameter.   *)
(***************************************************************************)
\* What a handler needs of the one who calls it.
Anyone    == [kind |-> "anyone", of |-> {}]
SignedIn  == [kind |-> "user", of |-> {}]
Super     == [kind |-> "super", of |-> {}]
SuperRole == [kind |-> "superrole", of |-> {}]
NotSuper  == [kind |-> "notsuper", of |-> {}]
Roles(rs) == [kind |-> "roles", of |-> rs]
Permit(p) == [kind |-> "permission", of |-> {p}]

Managers == {"SUPER_ADMIN", "ADMIN"}
Everyone == {"SUPER_ADMIN", "ADMIN", "VOLUNTEER"}

On(method, path, handler, needs) ==
  [method |-> method, path |-> path, handler |-> handler, needs |-> needs]

HealthRoutes == <<
  On("GET", <<"health">>, "health_check", Anyone),
  On("GET", <<"health", "live">>, "liveness_probe", Anyone),
  On("GET", <<"health", "ready">>, "readiness_probe", Anyone)>>

AuthRoutes == <<
  On("POST", <<"auth", "login">>, "login", Anyone),
  On("POST", <<"auth", "signup">>, "register", Anyone),
  On("POST", <<"auth", "register">>, "register", Anyone),
  On("POST", <<"auth", "signup", "request-otp">>, "request_signup_otp", Anyone),
  On("POST", <<"auth", "signup", "verify-otp">>, "verify_signup_otp", Anyone),
  On("POST", <<"auth", "login", "request-otp">>, "request_login_otp", Anyone),
  On("POST", <<"auth", "login", "verify-otp">>, "verify_login_otp", Anyone),
  On("POST", <<"auth", "forgot-password", "request-otp">>, "forgot_password", Anyone),
  On("POST", <<"auth", "forgot-password">>, "forgot_password", Anyone),
  On("POST", <<"auth", "reset-password">>, "reset_password", Anyone),
  On("POST", <<"auth", "refresh">>, "refresh_token", Anyone),
  On("POST", <<"auth", "logout">>, "logout", Anyone),
  On("POST", <<"auth", "mfa", "setup">>, "setup_mfa", SignedIn),
  On("POST", <<"auth", "mfa", "confirm">>, "confirm_mfa", SignedIn),
  On("POST", <<"auth", "google">>, "google_auth", Anyone)>>

UsersRoutes == <<
  On("GET", <<"users", "me">>, "get_my_profile", SignedIn),
  On("GET", <<"users">>, "list_users", Permit("user.view")),
  On("POST", <<"users">>, "create_user", Permit("user.create")),
  On("GET", <<"users", "roles", "all">>, "list_roles", SignedIn),
  On("GET", <<"users", "permissions", "all">>, "list_permissions", Permit("permission.manage")),
  On("GET", <<"users", "*">>, "get_user_by_id", Permit("user.view")),
  On("PUT", <<"users", "*">>, "update_user", Permit("user.update")),
  On("DELETE", <<"users", "*">>, "delete_user", Permit("user.delete")),
  On("DELETE", <<"users", "*", "purge">>, "purge_user", Super)>>

OrganizationsRoutes == <<
  On("GET", <<"organizations">>, "list_organizations", Permit("organization.view")),
  On("POST", <<"organizations">>, "create_organization", SuperRole),
  On("GET", <<"organizations", "*">>, "get_organization", Permit("organization.view")),
  On("PUT", <<"organizations", "*">>, "update_organization", Permit("organization.update"))>>

ElectionsRoutes == <<
  On("GET", <<"elections">>, "list_elections", Permit("election.view")),
  On("POST", <<"elections">>, "create_election", Permit("election.create")),
  On("GET", <<"elections", "*">>, "get_election", Permit("election.view")),
  On("PUT", <<"elections", "*">>, "update_election", Permit("election.update")),
  On("POST", <<"elections", "*", "transition">>, "transition_election_lifecycle", Permit("election.update")),
  On("PUT", <<"elections", "*", "settings">>, "update_election_settings", Permit("election.update"))>>

PositionsRoutes == <<
  On("GET", <<"positions", "election", "*">>, "list_positions", Permit("election.view")),
  On("POST", <<"positions">>, "create_position", Permit("position.manage")),
  On("PUT", <<"positions", "*">>, "update_position", Permit("position.manage"))>>

ConstituenciesRoutes == <<
  On("GET", <<"constituencies", "election", "*">>, "list_constituencies", Permit("election.view")),
  On("POST", <<"constituencies">>, "create_constituency", Permit("constituency.manage")),
  On("PUT", <<"constituencies", "*">>, "update_constituency", Permit("constituency.manage"))>>

BoothsRoutes == <<
  On("POST", <<"geography", "wards">>, "create_ward", Permit("constituency.manage")),
  On("GET", <<"geography", "wards">>, "list_wards", Permit("election.view")),
  On("POST", <<"geography", "booths">>, "create_booth", Permit("booth.manage")),
  On("GET", <<"geography", "booths">>, "list_booths", Permit("election.view")),
  On("GET", <<"geography", "booths", "*", "stats">>, "get_booth_stats", Permit("election.view")),
  On("POST", <<"geography", "areas">>, "create_area", Permit("area.manage")),
  On("GET", <<"geography", "areas">>, "list_areas", Permit("election.view")),
  On("GET", <<"geography", "map-metrics">>, "get_map_metrics", Permit("election.view"))>>

CandidatesRoutes == <<
  On("GET", <<"candidates">>, "get_candidates", Anyone),
  On("POST", <<"candidates">>, "add_candidate", Roles(Managers)),
  On("GET", <<"candidates", "election", "*">>, "list_candidates", Permit("candidate.view")),
  On("GET", <<"candidates", "*">>, "get_candidate", Permit("candidate.view")),
  On("PUT", <<"candidates", "*">>, "update_candidate", Permit("candidate.update")),
  On("DELETE", <<"candidates", "*">>, "delete_candidate", Permit("candidate.update")),
  On("POST", <<"candidates", "*", "status">>, "update_candidate_status", Permit("candidate.approve"))>>

TeamRoutes == <<
  On("GET", <<"team">>, "get_team_members", SignedIn),
  On("POST", <<"team">>, "add_team_member", Roles(Managers)),
  On("GET", <<"volunteers">>, "get_volunteers", SignedIn),
  On("GET", <<"booths">>, "get_booths", SignedIn)>>

\* Mutant of VotersRoutes: the deletion of many comes after that of one.
VotersRoutesSwapped == <<
  On("GET", <<"voters">>, "get_voters", SignedIn),
  On("GET", <<"voters", "election", "*">>, "list_election_voters", SignedIn),
  On("GET", <<"voters", "audience-split">>, "get_audience_split", SignedIn),
  On("POST", <<"voters">>, "create_voter", SignedIn),
  On("POST", <<"voters", "batch">>, "create_voters_batch", SignedIn),
  On("GET", <<"voters", "*">>, "get_voter", Permit("voter.view")),
  On("PUT", <<"voters", "*">>, "update_voter", Permit("voter.update")),
  On("DELETE", <<"voters", "*">>, "delete_voter", Permit("voter.update")),
  On("POST", <<"voters", "*", "verify">>, "verify_voter", Permit("voter.verify")),
  On("DELETE", <<"voters", "bulk">>, "delete_voters_bulk", Permit("voter.update"))>>

VotersRoutes == <<
  On("GET", <<"voters">>, "get_voters", SignedIn),
  On("GET", <<"voters", "election", "*">>, "list_election_voters", SignedIn),
  On("GET", <<"voters", "audience-split">>, "get_audience_split", SignedIn),
  On("POST", <<"voters">>, "create_voter", SignedIn),
  On("POST", <<"voters", "batch">>, "create_voters_batch", SignedIn),
  On("DELETE", <<"voters", "bulk">>, "delete_voters_bulk", Permit("voter.update")),
  On("GET", <<"voters", "*">>, "get_voter", Permit("voter.view")),
  On("PUT", <<"voters", "*">>, "update_voter", Permit("voter.update")),
  On("DELETE", <<"voters", "*">>, "delete_voter", Permit("voter.update")),
  On("POST", <<"voters", "*", "verify">>, "verify_voter", Permit("voter.verify"))>>

BroadcastRoutes == <<
  On("GET", <<"broadcast", "delivery-logs">>, "get_delivery_logs", SignedIn),
  On("GET", <<"broadcast", "audience-split", "*">>, "get_broadcast_audience_split", SignedIn),
  On("GET", <<"broadcast", "audience-split">>, "get_broadcast_audience_split", SignedIn),
  On("POST", <<"broadcast", "send">>, "send_broadcast", Roles(Managers)),
  On("GET", <<"broadcast", "groups">>, "list_broadcast_groups", SignedIn),
  On("POST", <<"broadcast", "groups">>, "create_broadcast_group", SignedIn),
  On("PATCH", <<"broadcast", "groups", "*", "draft">>, "save_broadcast_draft", SignedIn),
  On("POST", <<"broadcast", "*", "send">>, "send_broadcast_group", SignedIn),
  On("GET", <<"broadcast", "*", "results">>, "get_broadcast_group_results", SignedIn),
  On("GET", <<"broadcast", "*", "logs">>, "get_broadcast_group_logs", SignedIn),
  On("DELETE", <<"broadcast", "groups", "bulk">>, "bulk_delete_broadcast_groups", Roles(Managers)),
  On("DELETE", <<"broadcast", "groups", "*">>, "delete_broadcast_group", Roles(Managers))>>

ComplaintsRoutes == <<
  On("GET", <<"complaints">>, "get_complaints", SignedIn),
  On("GET", <<"complaints", "election", "*">>, "list_election_complaints", SignedIn),
  On("POST", <<"complaints">>, "add_complaint", NotSuper),
  On("POST", <<"complaints", "election", "*">>, "add_election_complaint", NotSuper),
  On("PATCH", <<"complaints", "*", "status">>, "update_complaint_status", Super),
  On("PUT", <<"complaints", "*", "status">>, "update_complaint_status", Super),
  On("PUT", <<"complaints", "*">>, "update_complaint", NotSuper),
  On("DELETE", <<"complaints", "*">>, "delete_complaint", NotSuper)>>

ExpensesRoutes == <<
  On("GET", <<"expenses">>, "get_expenses", SignedIn),
  On("GET", <<"expenses", "election", "*">>, "list_election_expenses", SignedIn),
  On("GET", <<"expenses", "election", "*", "summary">>, "get_election_budget_summary", SignedIn),
  On("POST", <<"expenses">>, "add_expense", Roles(Managers)),
  On("POST", <<"expenses", "election", "*">>, "add_election_expense", Roles(Managers)),
  On("DELETE", <<"expenses", "*">>, "delete_expense", Roles(Managers)),
  On("GET", <<"expenses", "budget-summary">>, "get_budget_summary", SignedIn)>>

VolunteerVotersRoutes == <<
  On("GET", <<"volunteer-voters">>, "get_volunteer_voters", SignedIn),
  On("POST", <<"volunteer-voters">>, "add_volunteer_voter", Roles(Everyone)),
  On("PATCH", <<"volunteer-voters", "*", "status">>, "update_volunteer_voter_status", Roles(Everyone)),
  On("PUT", <<"volunteer-voters", "*", "status">>, "update_volunteer_voter_status", Roles(Everyone))>>

ImportsRoutes == <<
  On("POST", <<"imports", "upload">>, "upload_voters_file", Permit("voter.import")),
  On("POST", <<"imports", "confirm">>, "confirm_import", Permit("voter.import")),
  On("DELETE", <<"imports", "*">>, "cancel_import", Permit("voter.import"))>>

PollingStationsRoutes == <<
  On("GET", <<"polling-stations", "election", "*">>, "list_polling_stations", Permit("station.view")),
  On("POST", <<"polling-stations">>, "create_polling_station", Permit("station.manage")),
  On("GET", <<"polling-stations", "*">>, "get_polling_station", Permit("station.view")),
  On("PUT", <<"polling-stations", "*">>, "update_polling_station", Permit("station.manage"))>>

VolunteersRoutes == <<
  On("POST", <<"volunteers">>, "create_volunteer", Permit("volunteer.manage")),
  On("GET", <<"volunteers">>, "list_volunteers", Permit("volunteer.view")),
  On("GET", <<"volunteers", "leaderboard">>, "get_volunteer_leaderboard", Permit("volunteer.view")),
  On("GET", <<"volunteers", "*">>, "get_volunteer", Permit("volunteer.view")),
  On("PATCH", <<"volunteers", "*">>, "update_volunteer", Permit("volunteer.manage")),
  On("POST", <<"volunteers", "*", "targets">>, "set_volunteer_target", Permit("volunteer.manage")),
  On("GET", <<"volunteers", "*", "performance">>, "get_volunteer_performance", Permit("volunteer.view")),
  On("POST", <<"volunteers", "tasks">>, "create_volunteer_task", Permit("volunteer.manage")),
  On("GET", <<"volunteers", "tasks", "list">>, "list_volunteer_tasks", SignedIn),
  On("GET", <<"volunteers", "election", "*">>, "list_assignments", Permit("volunteer.view")),
  On("POST", <<"volunteers", "assign">>, "assign_volunteer", Permit("volunteer.assign")),
  On("PATCH", <<"volunteers", "assignments", "*">>, "update_assignment", Permit("volunteer.assign")),
  On("PUT", <<"volunteers", "assignments", "*">>, "update_assignment", Permit("volunteer.assign"))>>

DataCollectionRoutes == <<
  On("POST", <<"data", "submit">>, "submit_field_data", Permit("data.submit")),
  On("GET", <<"data", "submissions">>, "list_submissions", Permit("data.view")),
  On("GET", <<"data", "submissions", "*">>, "get_submission", Permit("data.view")),
  On("POST", <<"data", "submissions", "*", "review">>, "review_submission", Permit("data.review")),
  On("POST", <<"data", "submissions", "bulk-review">>, "bulk_review_submissions", Permit("data.review")),
  On("GET", <<"data", "duplicates">>, "list_duplicates", Permit("data.review")),
  On("POST", <<"data", "duplicates", "resolve">>, "resolve_duplicate", Permit("data.review")),
  On("GET", <<"data", "quality", "stats">>, "get_data_quality_stats", Permit("data.view"))>>

CheckinRoutes == <<
  On("POST", <<"checkin">>, "checkin_voter", Permit("voter.checkin"))>>

VotingRoutes == <<
  On("POST", <<"voting", "auth-ballot">>, "authenticate_voter_and_generate_ballot", Anyone),
  On("POST", <<"voting", "cast">>, "cast_vote", Anyone)>>

ResultsRoutes == <<
  On("GET", <<"results", "election", "*">>, "get_election_results", Permit("result.view")),
  On("POST", <<"results", "election", "*", "tally">>, "tally_election_results_by_param", Permit("result.count")),
  On("POST", <<"results", "tally">>, "tally_election_results_by_body", Permit("result.count")),
  On("POST", <<"results", "publish">>, "publish_results", Permit("result.publish"))>>

TemplatesRoutes == <<
  On("POST", <<"templates">>, "create_template", Permit("template.manage")),
  On("GET", <<"templates">>, "list_templates", Permit("notification.view")),
  On("PATCH", <<"templates", "*">>, "update_template", Permit("template.manage")),
  On("POST", <<"templates", "preview">>, "preview_template", Permit("notification.view"))>>

BannersRoutes == <<
  On("POST", <<"banners">>, "create_banner", Permit("banner.manage")),
  On("GET", <<"banners">>, "list_banners", Permit("notification.view")),
  On("PATCH", <<"banners", "*">>, "update_banner", Permit("banner.manage"))>>

DesignTemplatesRoutes == <<
  On("GET", <<"design-templates">>, "list_design_templates", SignedIn),
  On("GET", <<"design-templates", "*">>, "get_design_template", Anyone),
  On("POST", <<"design-templates">>, "create_design_template", Permit("template.manage")),
  On("PUT", <<"design-templates", "*">>, "update_design_template", Permit("template.manage")),
  On("PATCH", <<"design-templates", "*">>, "update_design_template", Permit("template.manage")),
  On("DELETE", <<"design-templates", "*">>, "delete_design_template", Permit("template.manage")),
  On("POST", <<"design-templates", "upload">>, "upload_design_asset", SignedIn),
  On("POST", <<"design-templates", "designs">>, "save_design", SignedIn),
  On("GET", <<"design-templates", "designs", "my">>, "list_my_designs", SignedIn),
  On("GET", <<"design-templates", "shared-with-me">>, "list_shared_designs", SignedIn),
  On("POST", <<"design-templates", "designs", "*", "share">>, "share_design", SignedIn),
  On("DELETE", <<"design-templates", "designs", "*">>, "delete_saved_design", SignedIn)>>

PosterRoutes == <<
  On("GET", <<"posters", "shared-with-me">>, "list_shared_designs_alias", SignedIn),
  On("POST", <<"posters", "*", "share">>, "share_design_alias", SignedIn)>>

NotificationsRoutes == <<
  On("POST", <<"notifications", "send">>, "send_direct_message", Permit("notification.send")),
  On("POST", <<"notifications", "campaigns">>, "create_and_launch_campaign", Permit("notification.send")),
  On("GET", <<"notifications", "campaigns", "*", "report">>, "get_campaign_delivery_report",
     Permit("notification.view")),
  On("POST", <<"notifications", "templates">>, "create_template", Permit("notification.manage")),
  On("GET", <<"notifications", "templates">>, "list_templates", Permit("notification.view")),
  On("GET", <<"notifications", "my">>, "list_my_notifications", SignedIn),
  On("PATCH", <<"notifications", "*", "read">>, "mark_notification_read", SignedIn),
  On("POST", <<"notifications", "mark-all-read">>, "mark_all_notifications_read", SignedIn),
  On("DELETE", <<"notifications", "*">>, "delete_notification", SignedIn)>>

DashboardRoutes == <<
  On("GET", <<"dashboard", "superadmin">>, "get_super_admin_dashboard", SuperRole),
  On("GET", <<"dashboard", "admin", "*">>, "get_admin_dashboard", Permit("dashboard.view")),
  On("GET", <<"dashboard", "admin">>, "get_admin_dashboard", Permit("dashboard.view")),
  On("GET", <<"dashboard", "overview">>, "get_dashboard_overview", Permit("dashboard.view")),
  On("GET", <<"dashboard", "volunteer">>, "get_volunteer_dashboard", SignedIn)>>

AnalyticsRoutes == <<
  On("GET", <<"analytics", "charts">>, "get_analytics_charts", SignedIn),
  On("GET", <<"analytics", "election", "*", "turnout">>, "get_election_turnout_analytics", SignedIn),
  On("GET", <<"analytics">>, "get_analytics", SignedIn)>>

ReportsRoutes == <<
  On("GET", <<"reports", "volunteers">>, "get_volunteer_report", Permit("report.generate")),
  On("GET", <<"reports", "volunteers", "export", "csv">>, "export_volunteers_csv", Permit("report.generate")),
  On("GET", <<"reports", "data">>, "get_data_report", Permit("report.generate")),
  On("GET", <<"reports", "data", "export", "csv">>, "export_data_csv", Permit("report.generate")),
  On("GET", <<"reports", "elections", "*">>, "get_election_report", Permit("report.generate")),
  On("GET", <<"reports", "campaigns">>, "get_campaign_report", Permit("report.generate"))>>

AlertsRoutes == <<
  On("GET", <<"alerts">>, "list_alerts", Permit("alert.manage")),
  On("POST", <<"alerts", "*", "resolve">>, "resolve_alert", Permit("alert.manage")),
  On("GET", <<"alerts", "stats">>, "get_alert_stats", Permit("alert.manage"))>>

AuditLogsRoutes == <<
  On("GET", <<"audit", "logs">>, "list_audit_logs", Permit("audit.view")),
  On("GET", <<"audit-logs">>, "list_audit_logs", Permit("audit.view")),
  On("GET", <<"security-events">>, "list_security_events", Permit("security.view")),
  On("GET", <<"audit", "security-events">>, "list_security_events", Permit("security.view"))>>

WebhooksRoutes == <<
  On("POST", <<"webhooks", "sms">>, "handle_sms_webhook", Anyone),
  On("GET", <<"webhooks", "whatsapp">>, "verify_meta_whatsapp_webhook", Anyone),
  On("POST", <<"webhooks", "whatsapp">>, "handle_whatsapp_webhook", Anyone),
  On("POST", <<"webhooks", "instagram">>, "handle_instagram_webhook", Anyone)>>

ActivitiesRoutes == <<
  On("GET", <<"field-activities">>, "list_field_activities", Roles(Everyone)),
  On("POST", <<"field-activities", "submit">>, "submit_field_activity", Roles(Everyone)),
  On("POST", <<"field-activities">>, "submit_field_activity", Roles(Everyone)),
  On("PATCH", <<"field-activities", "*", "status">>, "update_field_activity_status", Roles(Everyone)),
  On("PUT", <<"field-activities", "*", "status">>, "update_field_activity_status", Roles(Everyone)),
  On("DELETE", <<"field-activities", "*">>, "delete_field_activity", Roles(Everyone)),
  On("PUT", <<"field-activities", "*", "approve">>, "approve_field_activity", Roles(Managers)),
  On("PUT", <<"field-activities", "*", "reject">>, "reject_field_activity", Roles(Managers)),
  On("GET", <<"attendance">>, "list_attendance", Roles(Everyone)),
  On("POST", <<"attendance", "check-in">>, "record_check_in", Roles(Everyone))>>

TasksRoutes == <<
  On("GET", <<"tasks">>, "list_tasks", SignedIn),
  On("POST", <<"tasks", "create">>, "create_task", Roles(Managers)),
  On("POST", <<"tasks">>, "create_task", Roles(Managers)),
  On("GET", <<"tasks", "*">>, "get_task", SignedIn),
  On("PATCH", <<"tasks", "*">>, "update_task", Roles(Managers)),
  On("PUT", <<"tasks", "*">>, "update_task", Roles(Managers)),
  On("PATCH", <<"tasks", "*", "status">>, "update_task_status", SignedIn),
  On("PUT", <<"tasks", "*", "status">>, "update_task_status", SignedIn),
  On("DELETE", <<"tasks", "*">>, "delete_task", Roles(Managers))>>

SubscriptionsRoutes == <<
  On("GET", <<"subscriptions", "plans">>, "list_plans", Anyone),
  On("GET", <<"subscriptions", "current">>, "get_current_subscription", SignedIn),
  On("POST", <<"subscriptions", "upgrade">>, "upgrade_subscription", SignedIn),
  On("GET", <<"subscriptions", "invoices">>, "list_invoices", SignedIn)>>

Router ==
  HealthRoutes \o AuthRoutes \o UsersRoutes \o OrganizationsRoutes \o ElectionsRoutes
   \o PositionsRoutes \o ConstituenciesRoutes \o BoothsRoutes \o CandidatesRoutes \o TeamRoutes
   \o VotersRoutes \o BroadcastRoutes \o ComplaintsRoutes \o ExpensesRoutes \o VolunteerVotersRoutes
   \o ImportsRoutes \o PollingStationsRoutes \o VolunteersRoutes \o DataCollectionRoutes \o CheckinRoutes
   \o VotingRoutes \o ResultsRoutes \o TemplatesRoutes \o BannersRoutes \o DesignTemplatesRoutes
   \o PosterRoutes \o NotificationsRoutes \o DashboardRoutes \o AnalyticsRoutes \o ReportsRoutes
   \o AlertsRoutes \o AuditLogsRoutes \o WebhooksRoutes \o ActivitiesRoutes \o TasksRoutes
   \o SubscriptionsRoutes

\* The permissions of a role by default.
AdminPermissions ==
  {"organization.view", "organization.update", "user.create", "user.view", "user.update", "user.suspend",
   "election.create", "election.view", "election.update", "election.publish", "election.close",
   "position.manage", "constituency.manage", "booth.manage", "area.manage",
   "candidate.create", "candidate.view", "candidate.update", "candidate.approve", "candidate.reject",
   "voter.create", "voter.view", "voter.update", "voter.import", "voter.verify", "voter.checkin", "voter.block",
   "station.manage", "station.view", "volunteer.manage", "volunteer.assign", "volunteer.view",
   "data.submit", "data.view", "data.review", "data.export", "template.manage", "banner.manage",
   "result.view", "result.count", "result.approve", "result.publish",
   "notification.send", "notification.manage", "notification.view",
   "dashboard.view", "report.generate", "alert.manage", "audit.view"}

VolunteerPermissions ==
  {"election.view", "station.view", "user.view", "voter.view", "voter.create", "voter.verify", "voter.checkin",
   "volunteer.view", "template.manage", "notification.view", "data.submit", "dashboard.view"}

SuperAdminPermissions ==
  AdminPermissions \cup
  {"system.manage", "security.view", "organization.create", "organization.suspend", "role.manage",
   "permission.manage", "election.cancel", "vote.session_issue", "vote.cast"}

DefaultRolePermissions ==
  [SUPER_ADMIN |-> SuperAdminPermissions, ADMIN |-> AdminPermissions, VOLUNTEER |-> VolunteerPermissions]

\* A request matches a route of the same method whose path differs from its
\* own in parameters alone.
Matches(q, route) ==
  /\ q.method = route.method
  /\ Len(q.path) = Len(route.path)
  /\ \A i \in DOMAIN q.path : route.path[i] \in {q.path[i], "*"}

\* The requests that are made: those that the routes are written for.
Asked(route) ==
  [method |-> route.method, path |-> [i \in DOMAIN route.path |-> IF route.path[i] = "*" THEN "x" ELSE route.path[i]]]

\* The first route that matches answers.
AnsweredBy(q) == Router[Min({i \in DOMAIN Router : Matches(q, Router[i])})]

\* What each route's request is answered by.
Answers == [i \in DOMAIN Router |-> AnsweredBy(Asked(Router[i]))]

-----------------------------------------------------------------------------
VARIABLES
  seeded,      \* role_permissions holds the default rows, of the roles
  account,     \* a user's account
  request      \* the request that is followed: who asks, and the route that answers

vars == <<seeded, account, request>>

NoRequest == [by |-> None, route |-> 0, step |-> "none"]

Init ==
  /\ seeded = FALSE
  /\ account = [u \in People |-> "none"]
  /\ request = NoRequest

\* is_superuser is set with the role SUPER_ADMIN, and only with it.
IsSuper(u) == RoleOf[u] = "SUPER_ADMIN"

\* The start of the program adds the rows that it misses, and takes none away;
\* the first super admin's account is among them.
Seed ==
  /\ seeded' = TRUE
  /\ \/ \E u \in People :
          /\ IsSuper(u) /\ account[u] = "none"
          /\ account' = [account EXCEPT ![u] = "active"]
     \/ UNCHANGED account
  /\ UNCHANGED request

\* Mutant of Granted: the rows of every role are looked up.
GrantedAny(r) == IF seeded THEN UNION Range(DefaultRolePermissions) ELSE {}

Granted(r) == IF seeded THEN DefaultRolePermissions[r] ELSE {}

\* require_roles, require_permissions, require_super_admin and the handlers'
\* own checks.  All but the open ones first load the account.
Admits(needs, u) ==
  \/ needs.kind = "anyone"
  \/ /\ account[u] = "active"
     /\ \/ needs.kind = "user"
        \/ needs.kind = "notsuper" /\ ~IsSuper(u)
        \/ needs.kind # "notsuper" /\ IsSuper(u)
        \/ needs.kind = "roles" /\ RoleOf[u] \in needs.of
        \/ needs.kind = "permission" /\ needs.of \subseteq Granted(RoleOf[u])

\* A user's request is dispatched, and admitted or refused.
Ask(u, i) ==
  /\ request = NoRequest
  /\ request' = [by |-> u, route |-> i, step |-> IF Admits(Answers[i].needs, u) THEN "admitted" ELSE "refused"]
  /\ UNCHANGED <<seeded, account>>

\* What a handler does to accounts.  Roles are there once they are seeded; an
\* onboarding makes a super admin.
Effect(handler, v) ==
  \/ /\ handler \in {"register", "verify_signup_otp"} /\ account[v] = "none" /\ IsSuper(v) /\ seeded
     /\ account' = [account EXCEPT ![v] = "active"]
  \/ /\ handler = "create_user" /\ account[v] = "none" /\ ~IsSuper(v) /\ seeded
     /\ \E s \in {"active", "inactive"} : account' = [account EXCEPT ![v] = s]
  \/ /\ handler = "update_user" /\ account[v] # "none"
     /\ \E s \in {"active", "inactive"} : account' = [account EXCEPT ![v] = s]
  \/ /\ handler = "delete_user" /\ account[v] # "none"
     /\ account' = [account EXCEPT ![v] = "inactive"]
  \/ /\ handler = "purge_user" /\ account[v] # "none"
     /\ account' = [account EXCEPT ![v] = "none"]

AccountHandlers == {"register", "verify_signup_otp", "create_user", "update_user", "delete_user", "purge_user"}
AccountRoutes == {i \in DOMAIN Router : Answers[i].handler \in AccountHandlers}

\* The request that was admitted is served, whatever has become of its account.
Serve ==
  /\ request.step = "admitted"
  /\ request' = [request EXCEPT !.step = "served"]
  /\ \/ \E v \in People : Effect(Answers[request.route].handler, v)
     \/ Answers[request.route].handler \notin AccountHandlers /\ UNCHANGED account
  /\ UNCHANGED seeded

\* The handler itself refuses, for instance what is not there.
Decline ==
  /\ request.step = "admitted"
  /\ request' = [request EXCEPT !.step = "refused"]
  /\ UNCHANGED <<seeded, account>>

\* Another one is followed.
Done ==
  /\ request.step \in {"served", "refused"}
  /\ request' = NoRequest
  /\ UNCHANGED <<seeded, account>>

\* Another request is asked and served while the one that is followed is under way.
Meanwhile(u, i, v) ==
  /\ request.step = "admitted"
  /\ Admits(Answers[i].needs, u)
  /\ Effect(Answers[i].handler, v)
  /\ UNCHANGED <<seeded, request>>

Next ==
  \/ Seed
  \/ \E u \in People, i \in DOMAIN Router : Ask(u, i)
  \/ \E u, v \in People, i \in AccountRoutes : Meanwhile(u, i, v)
  \/ Serve \/ Decline \/ Done

Spec == Init /\ [][Next]_vars

-----------------------------------------------------------------------------
(***************************************************************************)
(* Properties.                                                             *)
(***************************************************************************)
\* What a role shall never do.  docs/RBAC_MATRIX.md forbids volunteers to edit
\* the parameters of an election, to delete voters and to export, and keeps
\* the platform from administrators.
Prohibited ==
  [SUPER_ADMIN |-> {"add_complaint", "add_election_complaint", "update_complaint", "delete_complaint"},
   ADMIN |-> {"create_organization", "list_permissions", "get_super_admin_dashboard", "purge_user",
              "update_complaint_status"},
   VOLUNTEER |-> {"create_election", "update_election", "transition_election_lifecycle", "update_election_settings",
                  "create_position", "update_position", "create_constituency", "update_constituency",
                  "add_candidate", "update_candidate", "delete_candidate", "update_candidate_status",
                  "delete_voter", "delete_voters_bulk", "upload_voters_file", "confirm_import",
                  "tally_election_results_by_param", "tally_election_results_by_body", "publish_results",
                  "export_volunteers_csv", "export_data_csv",
                  "create_organization", "list_permissions", "get_super_admin_dashboard", "purge_user"}]

\* Nobody is served what the role forbids, through whichever route, whenever
\* the program was started and whatever becomes of accounts meanwhile.
ProhibitionsKept ==
  /\ account \in [People -> {"none", "active", "inactive"}]
  /\ request.step \in {"admitted", "served"} =>
       Answers[request.route].handler \notin Prohibited[RoleOf[request.by]]

\* Two routes are hidden by earlier ones: the list of volunteers, which
\* team.py answers, and the posters shared with a user, which pass for a
\* template's id.
Hidden == {"list_volunteers", "list_shared_designs"}

\* Every other request that is served is served by the handler of the route it
\* was written for.
AnswersItsPath ==
  request.step = "served" =>
    \/ Answers[request.route].handler = Router[request.route].handler
    \/ Router[request.route].handler \in Hidden
=============================================================================
